---- MODULE Spec2Model ----
(***************************************************************************)
(* StockPulse 360: the demand forecaster (python/forecast_model.py), the   *)
(* CSV loader that feeds stock_raw (python/data_loader.py), the            *)
(* application settings (python/config.py), the anomaly detector           *)
(* (python/anomaly_detector.py), the seasonal forecaster                   *)
(* (python/seasonal_forecaster.py), the alert sender with its notifiers    *)
(* (python/alert_sender.py, email_notifier.py, slack_notifier.py,          *)
(* notification_config.py) and the stock data generator                    *)
(* (python/generate_stock_data.py).                                        *)
(*                                                                         *)
(* Numbers.  The code computes in float64; the model computes the same     *)
(* expressions exactly, as normalised rationals [num, den].  A square root *)
(* (np.std) is carried as the rational under the root.  A value the code   *)
(* stores through round(x, 2) is an integer number of hundredths.          *)
(***************************************************************************)
EXTENDS Integers, Sequences, FiniteSets, TLC

VARIABLES
    stock_raw,          \* table stock_raw: rows in the order the table returns them
    forecast_output,    \* table forecast_output: sequence of saved rows
    forecast_horizons,  \* DemandForecaster.forecast_horizons
    min_data_points,    \* DemandForecaster.min_data_points
    today,              \* datetime.now().date(), as a day number
    run,                \* outcome of the latest calculate_forecasts call
    data,               \* one (location,item) group handed to the loop body
    key,                \* the (location,item) of that group
    result,             \* what the loop body appended to forecasts for data: <<>> or one forecast
    prev_result,        \* what the preceding call on the same data produced
    calc,               \* the local values of the latest _forecast_item call, <<>> if none
    calls,              \* number of loop-body calls on data so far
    results,            \* AnomalyDetector: per detector, the rows its query gave: <<>> before a call
    report,             \* AnomalyDetector: per detector, what its latest call returned
    RAW_STOCK,          \* table RAW_STOCK: rows in the order the table returns them
    seasonal,           \* the latest create_seasonal_forecast call: <<>> or its locals and result
    environ,            \* os.environ after load_dotenv(): the notification switches
    alert_channels,     \* AlertSender.alert_channels
    alerts,             \* the frame of alerts the process is about to send
    sent,               \* the send_alerts call of the process: <<>> or what it did
    mail,               \* a direct send_alert_email call: <<>> or what it did
    stock_levels,       \* generate_realistic_stock_data: stock_levels, <<>> before the call
    gen_data,           \* generate_realistic_stock_data: data, the records appended so far
    position,           \* generate_realistic_stock_data: [day, k] of the next loop body
    num_days            \* generate_realistic_stock_data: num_days

vars == <<stock_raw, forecast_output, forecast_horizons, min_data_points, today,
          run, data, key, result, prev_result, calc, calls, results, report,
          RAW_STOCK, seasonal, environ, alert_channels, alerts, sent, mail,
          stock_levels, gen_data, position, num_days>>

pipeVars == <<stock_raw, forecast_output, run>>
itemVars == <<data, key, result, prev_result, calc, calls>>
detectorVars == <<results, report>>
seasonalVars == <<RAW_STOCK, seasonal>>
alertVars == <<environ, alert_channels, alerts, sent, mail>>
generatorVars == <<stock_levels, gen_data, position, num_days>>

\* the components a specification does not exercise stay as constructed
DetectorIdle == results = <<>> /\ report = <<>>
SeasonalIdle == RAW_STOCK = <<>> /\ seasonal = <<>>
AlertIdle ==
    /\ environ = <<>>
    /\ alert_channels = <<>>
    /\ alerts = <<>>
    /\ sent = <<>>
    /\ mail = <<>>
GeneratorIdle ==
    /\ stock_levels = <<>>
    /\ gen_data = <<>>
    /\ position = <<>>
    /\ num_days = 0

----------------------------------------------------------------------------
(* Bounds *)

MaxLen == 3        \* longest generated group in the single-group specification
MaxDate == 3       \* record_date values 1..MaxDate
MaxRows == 5       \* rows in stock_raw
MaxCsv == 3        \* most rows in one CSV file (the smallest has 2)
MaxDay == 2        \* the clock runs from day 1 to MaxDay
MaxCalls == 2      \* calls of the loop body on one group
MaxUsageLen == 3   \* longest generated issued series of the detector's tables
MaxStockouts == 2  \* most stock-out days given to a group
MaxChangeLen == 2  \* most days in a table of day-over-day changes (the fewest is 2)
MaxHistory == 3    \* longest generated history of the seasonal forecaster
MaxWeeks == 2      \* most whole weeks in a history of the seasonal forecaster

IssuedValues == {0, 1, 4}

----------------------------------------------------------------------------
(* Exact rational arithmetic *)

RECURSIVE GCD(_, _)
GCD(a, b) == IF b = 0 THEN a ELSE GCD(b, a % b)

Abs(a) == IF a < 0 THEN 0 - a ELSE a

Rat(n, d) ==
    LET s == IF d < 0 THEN 0 - 1 ELSE 1
        g == GCD(Abs(n), Abs(d))
    IN  [num |-> (s * n) \div g, den |-> (s * d) \div g]

RInt(k) == [num |-> k, den |-> 1]
RAdd(a, b) == Rat(a.num * b.den + b.num * a.den, a.den * b.den)
RScale(a, k) == Rat(a.num * k, a.den)
RLt(a, b) == a.num * b.den < b.num * a.den
RLe(a, b) == a.num * b.den <= b.num * a.den
RMax0(a) == IF a.num > 0 THEN a ELSE RInt(0)

\* round(x, 2) as a number of hundredths; ties go to the even hundredth
Round2(a) ==
    LET ip == a.num \div a.den
        rem == a.num % a.den
        q == (100 * rem) \div a.den
        r2 == (100 * rem) % a.den
        lo == 100 * ip + q
    IN  IF 2 * r2 > a.den THEN lo + 1
        ELSE IF 2 * r2 < a.den THEN lo
        ELSE IF lo % 2 = 0 THEN lo ELSE lo + 1

\* floor of the square root of a natural number below 40001
ISqrt(q) == CHOOSE m \in 0..200 : m * m <= q /\ (m + 1) * (m + 1) > q

----------------------------------------------------------------------------
(* Sums over a sequence of integers *)

RECURSIVE SumTo(_, _)
SumTo(s, k) == IF k = 0 THEN 0 ELSE SumTo(s, k - 1) + s[k]

Sum(s) == SumTo(s, Len(s))

Arange(lo, hi) == [i \in 1..(hi - lo) |-> lo + i - 1]       \* np.arange(lo, hi)
Times(a, b) == [i \in 1..Len(a) |-> a[i] * b[i]]

----------------------------------------------------------------------------
(* config.py *)

APP_CONFIG == [forecast_days |-> <<7, 14>>, min_data_points |-> 3]

----------------------------------------------------------------------------
(* The numpy calls of _forecast_item *)

RMul(a, b) == Rat(a.num * b.num, a.den * b.den)
RDiv(a, b) == Rat(a.num * b.den, a.den * b.num)

np_mean(a) == Rat(Sum(a), Len(a))

np_average(a, weights) == Rat(Sum(Times(a, weights)), Sum(weights))

\* np.polyfit(x, y, 1)[0]: the least-squares slope of y against x
np_polyfit_slope(x, y) ==
    LET n == Len(x)
    IN  Rat(n * Sum(Times(x, y)) - Sum(x) * Sum(y),
            n * Sum(Times(x, x)) - Sum(x) * Sum(x))

\* np.std(a) squared: the population variance
np_std_sq(a) ==
    LET n == Len(a)
    IN  Rat(n * Sum(Times(a, a)) - Sum(a) * Sum(a), n * n)

\* round(max(0, min(1, 1 - cv)), 2) in hundredths, given cv squared (cv >= 0)
RoundConfidence(cv_sq) ==
    IF RLe(RInt(1), cv_sq) THEN 0
    ELSE LET m == ISqrt((40000 * cv_sq.num) \div cv_sq.den)      \* floor(200 * cv)
             tie == (m % 2 = 1) /\ (m * m * cv_sq.den = 40000 * cv_sq.num)
             up == 100 - ((m + 1) \div 2)
         IN  IF tie /\ up % 2 = 1 THEN up + 1 ELSE up

----------------------------------------------------------------------------
(* forecast_model.py *)

\* variant: the weights run from n down to 1, the oldest record weighing most
Weights_Reversed(n) == [i \in 1..n |-> n + 1 - i]

\* weights = np.arange(1, len(issued) + 1)
Weights(n) == Arange(1, n + 1)

\* variant: the projection without the max(0, ...) clamp
ForecastDays_NoClamp(wma, slope, h) == RAdd(RScale(wma, h), RScale(slope, h))

\* max(0, wma * h + slope * h)
ForecastDays(wma, slope, h) == RMax0(RAdd(RScale(wma, h), RScale(slope, h)))

\* variant: a series whose mean is not positive gets cv = 0 instead of 1
CoefficientOfVariationSq_ZeroFallback(issued) ==
    LET mean_val == np_mean(issued)
    IN  IF mean_val.num > 0
        THEN RDiv(np_std_sq(issued), RMul(mean_val, mean_val))
        ELSE RInt(0)

\* coefficient_of_variation, squared: std_dev / mean_val if mean_val > 0 else 1
CoefficientOfVariationSq(issued) ==
    LET mean_val == np_mean(issued)
    IN  IF mean_val.num > 0
        THEN RDiv(np_std_sq(issued), RMul(mean_val, mean_val))
        ELSE RInt(1)

\* the local values of DemandForecaster._forecast_item for issued = data['issued'].values
ForecastLocals(issued) ==
    LET sma == np_mean(issued)
        wma == np_average(issued, Weights(Len(issued)))
        slope == IF Len(issued) > 1
                 THEN np_polyfit_slope(Arange(0, Len(issued)), issued)
                 ELSE RInt(0)
        cv_sq == CoefficientOfVariationSq(issued)
    IN  [issued |-> issued, sma |-> sma, wma |-> wma, slope |-> slope,
         forecast_7_days |-> ForecastDays(wma, slope, 7),
         forecast_14_days |-> ForecastDays(wma, slope, 14),
         cv_sq |-> cv_sq,
         confidence |-> RoundConfidence(cv_sq)]

\* variant: the series is re-indexed by calendar day from the first to the last
\* record_date, a day without a record counting as 0 issued
Issued_ZeroFilled(df) ==
    LET first == df[1].record_date
        last == df[Len(df)].record_date
    IN  [d \in 1..(last - first + 1) |->
            IF \E i \in DOMAIN df : df[i].record_date = first + d - 1
            THEN df[CHOOSE i \in DOMAIN df : df[i].record_date = first + d - 1].issued
            ELSE 0]

Issued(df) == [i \in 1..Len(df) |-> df[i].issued]

\* variant: the instance keeps the issued values of earlier calls and counts them again
_forecast_item_Accumulating(location, item, df, now) ==
    LET l == ForecastLocals(Issued(df))
    IN  [location |-> location,
         item |-> item,
         forecast_date |-> now,
         demand_next_7_days |-> Round2(l.forecast_7_days),
         demand_next_14_days |-> Round2(l.forecast_14_days),
         confidence_score |-> l.confidence,
         avg_daily_demand |-> Round2(l.sma),
         trend_slope |-> Round2(l.slope),
         data_points |-> Len(df) * (calls + 1)]

\* DemandForecaster._forecast_item: the returned dict
_forecast_item(location, item, df, now) ==
    LET l == ForecastLocals(Issued(df))
    IN  [location |-> location,
         item |-> item,
         forecast_date |-> now,
         demand_next_7_days |-> Round2(l.forecast_7_days),
         demand_next_14_days |-> Round2(l.forecast_14_days),
         confidence_score |-> l.confidence,
         avg_daily_demand |-> Round2(l.sma),
         trend_slope |-> Round2(l.slope),
         data_points |-> Len(df)]

\* the horizons a returned dict carries a demand_next_<h>_days entry for
ResultHorizons == {7, 14}

DemandNext(f, h) == IF h = 7 THEN f.demand_next_7_days ELSE f.demand_next_14_days

\* variant: the group is used in the order the table returned it
sort_values_Unsorted(df) == df

\* group.sort_values('record_date'): rows with equal dates keep their order
RECURSIVE sort_values(_)
sort_values(df) ==
    IF Len(df) <= 1 THEN df
    ELSE LET head == sort_values(SubSeq(df, 1, Len(df) - 1))
             row == df[Len(df)]
             k == Cardinality({i \in 1..Len(head) : head[i].record_date <= row.record_date})
         IN  SubSeq(head, 1, k) \o <<row>> \o SubSeq(head, k + 1, Len(head))

\* variant: a group of exactly min_data_points records is skipped too
ForecastGroupBody_OffByOne(location, item, group, now, min_points) ==
    IF Len(group) <= min_points THEN <<>>
    ELSE <<_forecast_item(location, item, sort_values(group), now)>>

\* the body of the loop over groups in calculate_forecasts: what it appends to forecasts
ForecastGroupBody(location, item, group, now, min_points) ==
    IF Len(group) < min_points THEN <<>>
    ELSE <<_forecast_item(location, item, sort_values(group), now)>>

----------------------------------------------------------------------------
(* Inputs *)

\* (location, item) keys in the order groupby(['location', 'item']) iterates them
GroupKeys == <<[location |-> "Chennai", item |-> "Insulin"],
               [location |-> "Chennai", item |-> "Paracetamol"]>>

Row(k, d, v) == [location |-> k.location, item |-> k.item, issued |-> v, record_date |-> d]

\* the settings a deployment may carry in APP_CONFIG; the first is the shipped one
ConfigChoices == {APP_CONFIG,
                  [forecast_days |-> <<7, 14, 30>>, min_data_points |-> 3],
                  [forecast_days |-> <<7, 14>>, min_data_points |-> 2]}

DeclineSeries == <<100, 80, 60, 40, 20>>
ScenarioSeries == <<50, 55, 52, 58, 60, 62, 59, 65, 63, 68, 70, 67, 72, 75>>

SeriesFrame(k, series) == [i \in 1..Len(series) |-> Row(k, i, series[i])]

\* the groups of the single-group specification: every frame of up to MaxLen rows with
\* one row per date (days may be missing), in any arrival order, and the two series of
\* the documented scenarios
OneRowPerDate(df) ==
    \A i, j \in DOMAIN df : i # j => df[i].record_date # df[j].record_date

Frames(k) ==
    (UNION {{df \in [1..n -> {Row(k, d, v) : d \in 1..MaxDate, v \in IssuedValues}] :
                OneRowPerDate(df)} : n \in 1..MaxLen})
    \cup {SeriesFrame(k, DeclineSeries), SeriesFrame(k, ScenarioSeries)}

\* the CSV files offered to the loader: rows of one group, not in date order
ArrivalDates == <<2, 1, 3, 5, 4>>
ArrivalIssued == <<4, 0, 1, 4, 0>>
CsvFiles == {[i \in 1..n |-> Row(GroupKeys[g], ArrivalDates[i], ArrivalIssued[i])] :
                g \in 1..Len(GroupKeys), n \in 2..MaxCsv}

----------------------------------------------------------------------------
(* The single-group specification: the loop body applied to one group *)

InitItem ==
    /\ \E c \in ConfigChoices :
          /\ forecast_horizons = c.forecast_days
          /\ min_data_points = c.min_data_points
    /\ today = 1
    /\ key = GroupKeys[2]
    /\ data \in Frames(key)
    /\ result = <<>>
    /\ prev_result = <<>>
    /\ calc = <<>>
    /\ calls = 0
    /\ stock_raw = <<>>
    /\ forecast_output = <<>>
    /\ run = [outcome |-> "none", forecasts |-> <<>>]
    /\ DetectorIdle
    /\ SeasonalIdle
    /\ AlertIdle
    /\ GeneratorIdle

\* calculate_forecasts, one iteration of the loop over groups
ForecastGroup ==
    /\ calls < MaxCalls
    /\ result' = ForecastGroupBody(key.location, key.item, data, today, min_data_points)
    /\ calc' = IF Len(data) < min_data_points THEN <<>>
               ELSE <<ForecastLocals(Issued(sort_values(data)))>>
    /\ prev_result' = result
    /\ calls' = calls + 1
    /\ UNCHANGED <<data, key, today, forecast_horizons, min_data_points, pipeVars,
                   detectorVars, seasonalVars,
                   alertVars, generatorVars>>

\* the calendar day changes
Tick ==
    /\ today < MaxDay
    /\ today' = today + 1
    /\ UNCHANGED <<forecast_horizons, min_data_points, pipeVars, itemVars,
                   detectorVars, seasonalVars,
                   alertVars, generatorVars>>

NextItem == ForecastGroup \/ Tick

SpecItem == InitItem /\ [][NextItem]_vars

----------------------------------------------------------------------------
(* The pipeline specification: the loader and the forecast runs on the tables *)

GroupRows(df, k) == SelectSeq(df, LAMBDA r : r.location = k.location /\ r.item = k.item)

\* variant: the frame handed to the loop body keeps the rows of the groups before it
RECURSIVE ForecastsUpTo_SharedFrame(_, _, _, _)
ForecastsUpTo_SharedFrame(df, g, now, min_points) ==
    IF g = 0 THEN <<>>
    ELSE ForecastsUpTo_SharedFrame(df, g - 1, now, min_points) \o
         (IF GroupRows(df, GroupKeys[g]) = <<>> THEN <<>>
          ELSE ForecastGroupBody(GroupKeys[g].location, GroupKeys[g].item,
                                 SelectSeq(df, LAMBDA r : \E h \in 1..g :
                                              /\ r.location = GroupKeys[h].location
                                              /\ r.item = GroupKeys[h].item),
                                 now, min_points))

\* the forecasts list after the loop has passed the first g keys
RECURSIVE ForecastsUpTo(_, _, _, _)
ForecastsUpTo(df, g, now, min_points) ==
    IF g = 0 THEN <<>>
    ELSE ForecastsUpTo(df, g - 1, now, min_points) \o
         (IF GroupRows(df, GroupKeys[g]) = <<>> THEN <<>>
          ELSE ForecastGroupBody(GroupKeys[g].location, GroupKeys[g].item,
                                 GroupRows(df, GroupKeys[g]), now, min_points))

\* _save_forecasts: the columns written to forecast_output
output_df(forecasts) ==
    [i \in 1..Len(forecasts) |->
        [location |-> forecasts[i].location,
         item |-> forecasts[i].item,
         forecast_date |-> forecasts[i].forecast_date,
         demand_next_7_days |-> forecasts[i].demand_next_7_days,
         demand_next_14_days |-> forecasts[i].demand_next_14_days,
         confidence_score |-> forecasts[i].confidence_score]]

InitPipe ==
    /\ \E c \in ConfigChoices :
          /\ forecast_horizons = c.forecast_days
          /\ min_data_points = c.min_data_points
    /\ today = 1
    /\ stock_raw = <<>>
    /\ forecast_output = <<>>
    /\ run = [outcome |-> "none", forecasts |-> <<>>]
    /\ key = GroupKeys[1]
    /\ data = <<>>
    /\ result = <<>>
    /\ prev_result = <<>>
    /\ calc = <<>>
    /\ calls = 0
    /\ DetectorIdle
    /\ SeasonalIdle
    /\ AlertIdle
    /\ GeneratorIdle

\* DataLoader.load_csv_to_snowflake(csv_path, 'stock_raw', overwrite)
LoadCsv(csv, overwrite) ==
    /\ Len(IF overwrite THEN csv ELSE stock_raw \o csv) <= MaxRows
    /\ stock_raw' = IF overwrite THEN csv ELSE stock_raw \o csv
    /\ UNCHANGED <<forecast_output, run, today, forecast_horizons, min_data_points, itemVars,
                   detectorVars, seasonalVars,
                   alertVars, generatorVars>>

\* DemandForecaster.calculate_forecasts, with _save_forecasts
CalculateForecasts ==
    LET forecasts == ForecastsUpTo(stock_raw, Len(GroupKeys), today, min_data_points)
    IN  \/ /\ stock_raw = <<>>
           /\ run' = [outcome |-> "no_data", forecasts |-> <<>>]
           /\ UNCHANGED forecast_output
        \/ /\ stock_raw # <<>>
           /\ forecasts = <<>>
           /\ run' = [outcome |-> "no_forecasts", forecasts |-> <<>>]
           /\ UNCHANGED forecast_output
        \/ /\ stock_raw # <<>>
           /\ forecasts # <<>>
           /\ \/ /\ forecast_output' = output_df(forecasts)       \* write_pandas(overwrite=True)
                 /\ run' = [outcome |-> "saved", forecasts |-> forecasts]
              \/ /\ run' = [outcome |-> "save_failed", forecasts |-> forecasts]   \* write_pandas raises
                 /\ UNCHANGED forecast_output

\* variant: the run also clears the rows it has read from stock_raw
CalculateForecastsStep_ConsumesInput ==
    /\ CalculateForecasts
    /\ stock_raw' = <<>>
    /\ UNCHANGED <<today, forecast_horizons, min_data_points, itemVars,
                   detectorVars, seasonalVars,
                   alertVars, generatorVars>>

CalculateForecastsStep ==
    /\ CalculateForecasts
    /\ UNCHANGED <<stock_raw, today, forecast_horizons, min_data_points, itemVars,
                   detectorVars, seasonalVars,
                   alertVars, generatorVars>>

NextPipe ==
    \/ \E csv \in CsvFiles, overwrite \in BOOLEAN : LoadCsv(csv, overwrite)
    \/ CalculateForecastsStep

Spec == InitPipe /\ [][NextPipe]_vars

----------------------------------------------------------------------------
(* The anomaly detector (python/anomaly_detector.py).                      *)
(* Its four queries read stock_raw.  A quantity column (opening_stock,     *)
(* received, issued, closing_stock) is a decimal with two places, carried  *)
(* as a number of hundredths; the SQL arithmetic is computed exactly.  A   *)
(* nullable SQL value is <<>> (NULL) or <<v>>.  STDDEV is carried as the   *)
(* variance, the z-score as its square together with its sign.             *)

\* product, quotient and order of rationals, common factors cancelled before multiplying
RMulReduced(a, b) ==
    LET g1 == GCD(Abs(a.num), b.den)
        g2 == GCD(Abs(b.num), a.den)
    IN  Rat((a.num \div g1) * (b.num \div g2), (a.den \div g2) * (b.den \div g1))

RDivReduced(a, b) == RMulReduced(a, Rat(b.den, b.num))

RLtReduced(a, b) ==
    LET g1 == GCD(Abs(a.num), Abs(b.num))
        g2 == GCD(a.den, b.den)
    IN  IF g1 = 0 THEN FALSE
        ELSE (a.num \div g1) * (b.den \div g2) < (b.num \div g1) * (a.den \div g2)

RSub(a, b) == RAdd(a, RScale(b, 0 - 1))
RSq(a) == RMulReduced(a, a)

\* the rows of the window PARTITION BY location, item that holds row r
Partition(tbl, r) == SelectSeq(tbl, LAMBDA s : s.location = r.location /\ s.item = r.item)

\* AVG(issued) OVER (PARTITION BY location, item)
AVG(a) == Rat(Sum(a), Len(a))

\* variant: the population deviation (divisor n), defined for a single row too
STDDEV_sq_Population(a) ==
    <<Rat(Len(a) * Sum(Times(a, a)) - Sum(a) * Sum(a), Len(a) * Len(a))>>

\* STDDEV(issued) OVER (PARTITION BY location, item), squared: the sample deviation
\* (divisor n - 1), NULL for a partition of one row
STDDEV_sq(a) ==
    IF Len(a) < 2 THEN <<>>
    ELSE <<Rat(Len(a) * Sum(Times(a, a)) - Sum(a) * Sum(a), Len(a) * (Len(a) - 1))>>

\* stddev_usage > 0; a comparison with NULL is not true
StddevPositive(sd) == sd # <<>> /\ sd[1].num > 0

\* variant: the deviation is taken with its sign
z_score_Signed(issued, avg_usage, stddev_sq) ==
    IF StddevPositive(stddev_sq)
    THEN [neg |-> RLt(RInt(issued), avg_usage),
          sq |-> RDivReduced(RSq(RSub(RInt(issued), avg_usage)), stddev_sq[1])]
    ELSE [neg |-> FALSE, sq |-> RInt(0)]

\* CASE WHEN stddev_usage > 0 THEN ABS(issued - avg_usage) / stddev_usage ELSE 0 END
z_score(issued, avg_usage, stddev_sq) ==
    IF StddevPositive(stddev_sq)
    THEN [neg |-> FALSE,
          sq |-> RDivReduced(RSq(RSub(RInt(issued), avg_usage)), stddev_sq[1])]
    ELSE [neg |-> FALSE, sq |-> RInt(0)]

\* ABS(issued - avg_usage) > (stddev_usage * k) for k = kn / kd, compared by the squares
DeviatesBeyond(issued, avg_usage, stddev_sq, kn, kd) ==
    /\ stddev_sq # <<>>
    /\ RLtReduced(RMulReduced(stddev_sq[1], Rat(kn * kn, kd * kd)),
                  RSq(RSub(RInt(issued), avg_usage)))

\* variant: the thresholds are inclusive
anomaly_status_Inclusive(issued, avg_usage, stddev_sq) ==
    IF stddev_sq = <<>> THEN "NORMAL"
    ELSE IF ~RLtReduced(RSq(RSub(RInt(issued), avg_usage)),
                        RMulReduced(stddev_sq[1], Rat(25, 4))) THEN "ANOMALY"
    ELSE IF ~RLtReduced(RSq(RSub(RInt(issued), avg_usage)),
                        RMulReduced(stddev_sq[1], Rat(4, 1))) THEN "WARNING"
    ELSE "NORMAL"

\* the CASE that yields anomaly_status: 2.5 and 2.0 standard deviations
anomaly_status(issued, avg_usage, stddev_sq) ==
    IF DeviatesBeyond(issued, avg_usage, stddev_sq, 5, 2) THEN "ANOMALY"
    ELSE IF DeviatesBeyond(issued, avg_usage, stddev_sq, 2, 1) THEN "WARNING"
    ELSE "NORMAL"

\* a descending sort key: NULL sorts first under ORDER BY ... DESC
KeyAbove(a, b) ==
    \/ a = <<>> /\ b # <<>>
    \/ a # <<>> /\ b # <<>> /\ RLtReduced(b[1], a[1])

\* ORDER BY key DESC over entries [row, key]; entries of equal key stay in scan order
RECURSIVE OrderedEntries(_)
OrderedEntries(es) ==
    IF es = <<>> THEN <<>>
    ELSE LET sorted == OrderedEntries(SubSeq(es, 1, Len(es) - 1))
             e == es[Len(es)]
             ahead == Len(SelectSeq(sorted, LAMBDA x : ~KeyAbove(e.key, x.key)))
         IN  SubSeq(sorted, 1, ahead) \o <<e>> \o SubSeq(sorted, ahead + 1, Len(sorted))

OrderByDesc(rows, keys) ==
    LET sorted == OrderedEntries([i \in DOMAIN rows |-> [row |-> rows[i], key |-> keys[i]]])
    IN  [p \in DOMAIN sorted |-> sorted[p].row]

UsageRow(tbl, r) ==
    LET avg_usage == AVG(Issued(Partition(tbl, r)))
        stddev_usage == STDDEV_sq(Issued(Partition(tbl, r)))
    IN  [location |-> r.location, item |-> r.item, record_date |-> r.record_date,
         issued |-> r.issued, avg_usage |-> avg_usage, stddev_usage_sq |-> stddev_usage,
         z_score |-> z_score(r.issued, avg_usage, stddev_usage),
         anomaly_status |-> anomaly_status(r.issued, avg_usage, stddev_usage)]

\* variant: no WHERE clause
anomaly_query_Unfiltered(tbl) ==
    LET usage_stats == [i \in DOMAIN tbl |-> UsageRow(tbl, tbl[i])]
    IN  OrderByDesc(usage_stats, [i \in DOMAIN usage_stats |-> <<usage_stats[i].z_score.sq>>])

\* anomaly_query
anomaly_query(tbl) ==
    LET usage_stats == [i \in DOMAIN tbl |-> UsageRow(tbl, tbl[i])]
        selected == SelectSeq(usage_stats, LAMBDA r : StddevPositive(r.stddev_usage_sq))
    IN  OrderByDesc(selected, [i \in DOMAIN selected |-> <<selected[i].z_score.sq>>])

\* results[results['ANOMALY_STATUS'].isin(['ANOMALY', 'WARNING'])]
Anomalies(rows) == SelectSeq(rows, LAMBDA r : r.anomaly_status \in {"ANOMALY", "WARNING"})

\* LAG(...) OVER (PARTITION BY location, item ORDER BY record_date): the row before r
LAG(tbl, r) ==
    LET earlier == {j \in DOMAIN tbl : /\ tbl[j].location = r.location
                                       /\ tbl[j].item = r.item
                                       /\ tbl[j].record_date < r.record_date}
    IN  IF earlier = {} THEN <<>>
        ELSE <<tbl[CHOOSE j \in earlier :
                      \A k \in earlier : tbl[k].record_date <= tbl[j].record_date]>>

threshold_percent_default == 50

\* CASE WHEN prev > 0 THEN ((curr - prev) / prev) * 100 ELSE NULL END
change_pct(curr, prev) ==
    IF prev # <<>> /\ prev[1] > 0 THEN <<Rat((curr - prev[1]) * 100, prev[1])>> ELSE <<>>

\* ABS(((curr - prev) / NULLIF(prev, 0)) * 100) > threshold_percent
ExceedsThreshold(curr, prev, threshold_percent) ==
    /\ prev # <<>>
    /\ prev[1] # 0
    /\ Abs(curr - prev[1]) * 100 > threshold_percent * Abs(prev[1])

RAbs(a) == [num |-> Abs(a.num), den |-> a.den]

ChangeRow(tbl, r, threshold_percent) ==
    LET before == LAG(tbl, r)
        prev_closing_stock == IF before = <<>> THEN <<>> ELSE <<before[1].closing_stock>>
        prev_issued == IF before = <<>> THEN <<>> ELSE <<before[1].issued>>
    IN  [location |-> r.location, item |-> r.item, record_date |-> r.record_date,
         closing_stock |-> r.closing_stock, prev_closing_stock |-> prev_closing_stock,
         issued |-> r.issued, prev_issued |-> prev_issued,
         stock_change_pct |-> change_pct(r.closing_stock, prev_closing_stock),
         usage_change_pct |-> change_pct(r.issued, prev_issued),
         change_type |->
             IF ExceedsThreshold(r.closing_stock, prev_closing_stock, threshold_percent)
             THEN "SUDDEN_STOCK_CHANGE"
             ELSE IF ExceedsThreshold(r.issued, prev_issued, threshold_percent)
             THEN "SUDDEN_USAGE_CHANGE"
             ELSE "NORMAL"]

\* change_query
change_query(tbl, threshold_percent) ==
    LET daily_changes == [i \in DOMAIN tbl |-> ChangeRow(tbl, tbl[i], threshold_percent)]
        selected == SelectSeq(daily_changes, LAMBDA r : /\ r.prev_closing_stock # <<>>
                                                        /\ r.change_type # "NORMAL")
    IN  OrderByDesc(selected,
                    [i \in DOMAIN selected |->
                        IF selected[i].stock_change_pct = <<>> THEN <<>>
                        ELSE <<RAbs(selected[i].stock_change_pct[1])>>])

\* variant: the discrepancy may not reach 0.01
quality_issue_ToleranceInclusive(r) ==
    IF r.closing_stock < 0 THEN "NEGATIVE_STOCK"
    ELSE IF r.opening_stock < 0 THEN "NEGATIVE_OPENING"
    ELSE IF r.received < 0 THEN "NEGATIVE_RECEIVED"
    ELSE IF r.issued < 0 THEN "NEGATIVE_ISSUED"
    ELSE IF Abs((r.opening_stock + r.received - r.issued) - r.closing_stock) >= 1
    THEN "CALCULATION_MISMATCH"
    ELSE IF r.issued > r.opening_stock + r.received THEN "OVER_ISSUED"
    ELSE "OK"

\* the CASE that yields quality_issue; 0.01 is one hundredth
quality_issue(r) ==
    IF r.closing_stock < 0 THEN "NEGATIVE_STOCK"
    ELSE IF r.opening_stock < 0 THEN "NEGATIVE_OPENING"
    ELSE IF r.received < 0 THEN "NEGATIVE_RECEIVED"
    ELSE IF r.issued < 0 THEN "NEGATIVE_ISSUED"
    ELSE IF Abs((r.opening_stock + r.received - r.issued) - r.closing_stock) > 1
    THEN "CALCULATION_MISMATCH"
    ELSE IF r.issued > r.opening_stock + r.received THEN "OVER_ISSUED"
    ELSE "OK"

\* variant: the over-issue rule comes before the mismatch rule
quality_query_OverIssuedFirst(tbl) ==
    LET label(r) == IF quality_issue(r) = "CALCULATION_MISMATCH"
                       /\ r.issued > r.opening_stock + r.received
                    THEN "OVER_ISSUED" ELSE quality_issue(r)
        checked == [i \in DOMAIN tbl |->
            [location |-> tbl[i].location, item |-> tbl[i].item,
             record_date |-> tbl[i].record_date,
             opening_stock |-> tbl[i].opening_stock, received |-> tbl[i].received,
             issued |-> tbl[i].issued, closing_stock |-> tbl[i].closing_stock,
             quality_issue |-> label(tbl[i]),
             calculated_closing |-> tbl[i].opening_stock + tbl[i].received - tbl[i].issued,
             discrepancy |-> tbl[i].closing_stock
                             - (tbl[i].opening_stock + tbl[i].received - tbl[i].issued)]]
        selected == SelectSeq(checked, LAMBDA r : r.quality_issue # "OK")
    IN  OrderByDesc(selected, [i \in DOMAIN selected |-> <<RInt(selected[i].record_date)>>])

\* quality_query
quality_query(tbl) ==
    LET checked == [i \in DOMAIN tbl |->
            [location |-> tbl[i].location, item |-> tbl[i].item,
             record_date |-> tbl[i].record_date,
             opening_stock |-> tbl[i].opening_stock, received |-> tbl[i].received,
             issued |-> tbl[i].issued, closing_stock |-> tbl[i].closing_stock,
             quality_issue |-> quality_issue(tbl[i]),
             calculated_closing |-> tbl[i].opening_stock + tbl[i].received - tbl[i].issued,
             discrepancy |-> tbl[i].closing_stock
                             - (tbl[i].opening_stock + tbl[i].received - tbl[i].issued)]]
        selected == SelectSeq(checked, LAMBDA r : r.quality_issue # "OK")
    IN  OrderByDesc(selected, [i \in DOMAIN selected |-> <<RInt(selected[i].record_date)>>])

\* CASE WHEN closing_stock <= 0 THEN 1 ELSE 0 END
is_stockout(r) == IF r.closing_stock <= 0 THEN 1 ELSE 0

\* ROUND(x, 2) of a non-negative x as a number of hundredths; SQL rounds a tie away from zero
ROUND_2(a) == (a.num * 200 + a.den) \div (2 * a.den)

\* variant: the bucket bounds 20 and 10 belong to the higher bucket
pattern_type_Inclusive(stockout_days, total_days) ==
    IF stockout_days * 100 >= 20 * total_days THEN "FREQUENT_STOCKOUTS"
    ELSE IF stockout_days * 100 >= 10 * total_days THEN "OCCASIONAL_STOCKOUTS"
    ELSE IF stockout_days > 0 THEN "RARE_STOCKOUTS"
    ELSE "NO_STOCKOUTS"

\* the CASE that yields pattern_type, on SUM(is_stockout) * 100.0 / COUNT(*)
pattern_type(stockout_days, total_days) ==
    IF RLt(RInt(20), Rat(stockout_days * 100, total_days)) THEN "FREQUENT_STOCKOUTS"
    ELSE IF RLt(RInt(10), Rat(stockout_days * 100, total_days)) THEN "OCCASIONAL_STOCKOUTS"
    ELSE IF stockout_days > 0 THEN "RARE_STOCKOUTS"
    ELSE "NO_STOCKOUTS"

\* one output row of GROUP BY location, item, for the group that holds row r
PatternRow(tbl, r) ==
    LET history == Partition(tbl, r)
        total_days == Len(history)
        stockout_days == Sum([i \in DOMAIN history |-> is_stockout(history[i])])
        stockouts == {i \in DOMAIN history : is_stockout(history[i]) = 1}
    IN  [location |-> r.location, item |-> r.item,
         total_days |-> total_days, stockout_days |-> stockout_days,
         stockout_rate_pct |-> ROUND_2(Rat(stockout_days * 100, total_days)),
         last_stockout_date |->
             IF stockouts = {} THEN <<>>
             ELSE <<history[CHOOSE i \in stockouts : \A j \in stockouts :
                               history[j].record_date <= history[i].record_date].record_date>>,
         pattern_type |-> pattern_type(stockout_days, total_days)]

\* pattern_query
pattern_query(tbl) ==
    LET firsts == SelectSeq([i \in DOMAIN tbl |-> [row |-> tbl[i], at |-> i]],
                       LAMBDA e : \A j \in 1..(e.at - 1) :
                           tbl[j].location # e.row.location \/ tbl[j].item # e.row.item)
        groups == [g \in DOMAIN firsts |-> PatternRow(tbl, firsts[g].row)]
        selected == SelectSeq(groups, LAMBDA p : p.stockout_days > 0)
    IN  OrderByDesc(selected, [i \in DOMAIN selected |-> <<RInt(selected[i].stockout_rate_pct)>>])

(* Inputs of the detector *)

StockRecord(k, d, opening, received, issued, closing) ==
    [location |-> k.location, item |-> k.item, record_date |-> d,
     opening_stock |-> opening, received |-> received,
     issued |-> issued, closing_stock |-> closing]

\* a day whose books balance: nothing received, closing = opening - issued
BalancedRecord(k, d, issued, closing) == StockRecord(k, d, closing + issued, 0, issued, closing)

UsageValues == {0, 100, 500}

SpikeSeries == <<1000, 1100, 900, 1000, 1200, 5000, 1100>>     \* 10, 11, 9, 10, 12, 50, 11
TwoSigmaSeries == <<0, 0, 5, 0, 1, 0>>                  \* the 5 lies 2 deviations off the mean
TwoAndHalfSigmaSeries == <<0, 0, 0, 6, 0, 1, 0, 2, 0>>  \* the 6 lies 2.5 deviations off
OutlierSeries == <<1, 1, 1, 1, 10, 1, 1, 1, 1>>         \* the 10 lies 8/3 deviations off
SymmetricSeries == <<0, 5, 5, 5, 5, 5, 5, 5, 5, 10>>    \* 0 and 10 lie equally far off

UsageSeries ==
    UNION {[1..n -> UsageValues] : n \in 1..MaxUsageLen}
        \cup {SpikeSeries, TwoSigmaSeries, TwoAndHalfSigmaSeries, OutlierSeries,
              SymmetricSeries}

OtherGroupSeries == {<<>>, <<9000, 9000, 9000>>, TwoAndHalfSigmaSeries}

\* the first group runs out of stock on its first k days
UsageTable(series, other, k) ==
    [i \in 1..Len(series) |->
        BalancedRecord(GroupKeys[1], i, series[i],
                       IF i > k THEN 2000 ELSE IF i % 2 = 1 THEN 0 ELSE 0 - 500)]
    \o [i \in 1..Len(other) |-> BalancedRecord(GroupKeys[2], i, other[i], 2000)]

UsageTables ==
    {UsageTable(series, other, k) :
        series \in UsageSeries, other \in OtherGroupSeries, k \in 0..MaxStockouts}

ChangeDays ==
    {[closing_stock |-> c, issued |-> 1000] : c \in {0 - 1000, 0, 1000, 1500, 1600}}
        \cup {[closing_stock |-> 1000, issued |-> u] : u \in {0 - 1000, 0, 1600}}
        \cup {[closing_stock |-> 1600, issued |-> 1600]}

Reversed(s) == [i \in 1..Len(s) |-> s[Len(s) + 1 - i]]

ChangeTable(days, backwards) ==
    LET rows == [i \in DOMAIN days |->
                    BalancedRecord(GroupKeys[1], i, days[i].issued, days[i].closing_stock)]
    IN  IF backwards THEN Reversed(rows) ELSE rows

ChangeTables ==
    {ChangeTable(days, backwards) :
        days \in UNION {[1..n -> ChangeDays] : n \in 2..MaxChangeLen},
        backwards \in BOOLEAN}

QualityRecords ==
    {StockRecord(GroupKeys[1], 1, opening, received, issued, closing) :
        opening \in {0 - 100, 100}, received \in {0 - 100, 0},
        issued \in {0 - 100, 0, 101, 200}, closing \in {0 - 100, 0, 1, 98, 99, 100}}

\* one record of every kind, and one table of several records
QualityTables ==
    {<<q>> : q \in QualityRecords}
        \cup {<<StockRecord(GroupKeys[1], 2, 100, 0, 101, 0),
                StockRecord(GroupKeys[2], 3, 100, 0, 0, 100),
                StockRecord(GroupKeys[1], 1, 100, 0, 0, 98),
                StockRecord(GroupKeys[2], 1, 0 - 100, 0 - 100, 0 - 100, 0 - 100)>>}

ThresholdChoices == {threshold_percent_default, 70}

(* The detector specifications: the detectors on one stock_raw *)

NotCalled == [detect_usage_anomalies |-> <<>>, detect_sudden_changes |-> <<>>,
              detect_data_quality_issues |-> <<>>, detect_stockout_patterns |-> <<>>]

InitDetector(tables) ==
    /\ stock_raw \in tables
    /\ results = NotCalled
    /\ report = NotCalled
    /\ SeasonalIdle
    /\ AlertIdle
    /\ GeneratorIdle
    /\ forecast_horizons = APP_CONFIG.forecast_days
    /\ min_data_points = APP_CONFIG.min_data_points
    /\ today = 1
    /\ forecast_output = <<>>
    /\ run = [outcome |-> "none", forecasts |-> <<>>]
    /\ key = GroupKeys[1]
    /\ data = <<>>
    /\ result = <<>>
    /\ prev_result = <<>>
    /\ calc = <<>>
    /\ calls = 0

\* AnomalyDetector.detect_usage_anomalies
detect_usage_anomalies ==
    /\ results' = [results EXCEPT !.detect_usage_anomalies = <<anomaly_query(stock_raw)>>]
    /\ report' = [report EXCEPT
                     !.detect_usage_anomalies = <<Anomalies(results'.detect_usage_anomalies[1])>>]

\* AnomalyDetector.detect_sudden_changes(threshold_percent)
detect_sudden_changes(threshold_percent) ==
    /\ results' = [results EXCEPT !.detect_sudden_changes =
                      <<[threshold_percent |-> threshold_percent,
                         rows |-> change_query(stock_raw, threshold_percent)]>>]
    /\ report' = [report EXCEPT !.detect_sudden_changes = results'.detect_sudden_changes]

\* AnomalyDetector.detect_data_quality_issues
detect_data_quality_issues ==
    /\ results' = [results EXCEPT !.detect_data_quality_issues = <<quality_query(stock_raw)>>]
    /\ report' = [report EXCEPT
                     !.detect_data_quality_issues = results'.detect_data_quality_issues]

\* AnomalyDetector.detect_stockout_patterns
detect_stockout_patterns ==
    /\ results' = [results EXCEPT !.detect_stockout_patterns = <<pattern_query(stock_raw)>>]
    /\ report' = [report EXCEPT !.detect_stockout_patterns = results'.detect_stockout_patterns]

\* AnomalyDetector.generate_anomaly_report: the four detectors with their defaults
generate_anomaly_report ==
    /\ results' = [detect_usage_anomalies |-> <<anomaly_query(stock_raw)>>,
                   detect_sudden_changes |->
                       <<[threshold_percent |-> threshold_percent_default,
                          rows |-> change_query(stock_raw, threshold_percent_default)]>>,
                   detect_data_quality_issues |-> <<quality_query(stock_raw)>>,
                   detect_stockout_patterns |-> <<pattern_query(stock_raw)>>]
    /\ report' = [results' EXCEPT
                     !.detect_usage_anomalies = <<Anomalies(results'.detect_usage_anomalies[1])>>]

DetectorUnchanged ==
    UNCHANGED <<stock_raw, forecast_output, run, today, forecast_horizons,
                min_data_points, itemVars, seasonalVars,
                alertVars, generatorVars>>

\* the detectors that work on whole group histories
NextGroups ==
    \/ detect_usage_anomalies /\ DetectorUnchanged
    \/ detect_stockout_patterns /\ DetectorUnchanged
    \/ generate_anomaly_report /\ DetectorUnchanged

SpecGroups == InitDetector(UsageTables) /\ [][NextGroups]_vars

NextChanges ==
    \/ \E t \in ThresholdChoices : detect_sudden_changes(t) /\ DetectorUnchanged
    \/ generate_anomaly_report /\ DetectorUnchanged

SpecChanges == InitDetector(ChangeTables) /\ [][NextChanges]_vars

NextQuality ==
    \/ detect_data_quality_issues /\ DetectorUnchanged
    \/ generate_anomaly_report /\ DetectorUnchanged

SpecQuality == InitDetector(QualityTables) /\ [][NextQuality]_vars

----------------------------------------------------------------------------
(* The seasonal forecaster (python/seasonal_forecaster.py).                *)
(* It reads the table RAW_STOCK.  A date is a day number, day 0 being a    *)
(* Sunday.  A float is [nan, inf, val]: NaN, or an infinity of sign inf,   *)
(* or the exact rational val; division and product follow IEEE 754.        *)

Num(r) == [nan |-> FALSE, inf |-> 0, val |-> r]
NaN == [nan |-> TRUE, inf |-> 0, val |-> RInt(0)]
Inf(s) == [nan |-> FALSE, inf |-> s, val |-> RInt(0)]
IsFinite(a) == ~a.nan /\ a.inf = 0

Sign(n) == IF n > 0 THEN 1 ELSE IF n < 0 THEN 0 - 1 ELSE 0
FSign(a) == IF a.inf # 0 THEN a.inf ELSE Sign(a.val.num)

\* a / b on floats: 0 / 0 is NaN and x / 0 an infinity, nothing is raised
FDiv(a, b) ==
    IF a.nan \/ b.nan THEN NaN
    ELSE IF a.inf # 0 THEN (IF b.inf # 0 THEN NaN
                            ELSE Inf(a.inf * (IF b.val.num < 0 THEN 0 - 1 ELSE 1)))
    ELSE IF b.inf # 0 THEN Num(RInt(0))
    ELSE IF b.val.num = 0 THEN (IF a.val.num = 0 THEN NaN ELSE Inf(Sign(a.val.num)))
    ELSE Num(RDivReduced(a.val, b.val))

\* a * b on floats
FMul(a, b) ==
    IF a.nan \/ b.nan THEN NaN
    ELSE IF a.inf # 0 \/ b.inf # 0
         THEN (IF FSign(a) * FSign(b) = 0 THEN NaN ELSE Inf(FSign(a) * FSign(b)))
    ELSE Num(RMulReduced(a.val, b.val))

\* round(x, 2): NaN and the infinities round to themselves
round_2(a) == IF IsFinite(a) THEN Num(Rat(Round2(a.val), 100)) ELSE a

\* DAYOFWEEK(date) of the warehouse: 0 is Sunday, ..., 6 is Saturday
DAYOFWEEK(d) == d % 7

\* Timestamp.dayofweek of pandas: 0 is Monday, ..., 6 is Sunday
dayofweek(d) == (d + 6) % 7

\* historical_query: the rows of (location, item), ordered by last_updated_date
historical_query(tbl, location, item) ==
    LET mine == SelectSeq(tbl, LAMBDA r : r.location = location /\ r.item = item)
    IN  sort_values([i \in DOMAIN mine |->
                        [record_date |-> mine[i].last_updated_date,
                         issued |-> mine[i].issued_qty,
                         day_of_week |-> DAYOFWEEK(mine[i].last_updated_date)]])

OnDay(historical, d) == SelectSeq(historical, LAMBDA r : r.day_of_week = d)

\* variant: the weekday totals take the place of the weekday means
GroupMeans_Totals(historical) ==
    [d \in 0..6 |-> IF OnDay(historical, d) = <<>> THEN <<>>
                    ELSE <<Num(RInt(Sum(Issued(OnDay(historical, d)))))>>]

\* historical.groupby('DAY_OF_WEEK')['ISSUED'].mean(): one entry per day_of_week that
\* occurs, <<>> for a key the Series does not have
GroupMeans(historical) ==
    [d \in 0..6 |-> IF OnDay(historical, d) = <<>> THEN <<>>
                    ELSE <<Num(np_mean(Issued(OnDay(historical, d))))>>]

\* seasonal_factors / overall_avg
Normalized(means, overall_avg) ==
    [d \in 0..6 |-> IF means[d] = <<>> THEN <<>> ELSE <<FDiv(means[d][1], overall_avg)>>]

\* Series.get(key, default)
Get(series, k, default) == IF series[k] = <<>> THEN default ELSE series[k][1]

\* historical['ISSUED'].tail(n)
Tail_n(a, n) == IF Len(a) <= n THEN a ELSE SubSeq(a, Len(a) - n + 1, Len(a))

\* SeasonalForecaster.create_seasonal_forecast: what the call returns, with its locals
SeasonalForecast(tbl, location, item, forecast_days) ==
    LET historical == historical_query(tbl, location, item)
    IN  IF historical = <<>>
        THEN [location |-> location, item |-> item, forecast_days |-> forecast_days,
              returned |-> "None", historical |-> <<>>, seasonal_factors |-> <<>>,
              overall_avg |-> <<>>, base_forecast |-> <<>>, forecast_df |-> <<>>]
        ELSE LET overall_avg == Num(np_mean(Issued(historical)))
                 seasonal_factors == Normalized(GroupMeans(historical), overall_avg)
                 last_date == historical[Len(historical)].record_date
                 base_forecast == Num(np_mean(Tail_n(Issued(historical), 7)))
                 Forecast(date) ==
                     LET seasonal_factor == Get(seasonal_factors, dayofweek(date), Num(RInt(1)))
                     IN  [location |-> location, item |-> item, forecast_date |-> date,
                          forecasted_usage |-> round_2(FMul(base_forecast, seasonal_factor)),
                          seasonal_factor |-> round_2(seasonal_factor),
                          base_forecast |-> round_2(base_forecast)]
             IN  [location |-> location, item |-> item, forecast_days |-> forecast_days,
                  returned |-> "forecast_df", historical |-> historical,
                  seasonal_factors |-> <<seasonal_factors>>,
                  overall_avg |-> <<overall_avg>>, base_forecast |-> <<base_forecast>>,
                  forecast_df |-> [i \in 1..forecast_days |-> Forecast(last_date + i)]]

(* Inputs of the seasonal forecaster *)

RawRow(k, d, v) ==
    [location |-> k.location, item |-> k.item, last_updated_date |-> d, issued_qty |-> v]

SeasonalValues == {0, 1, 3}

WeekPatterns == {<<0, 0, 0, 0, 0, 0, 0>>, <<5, 5, 5, 5, 5, 5, 5>>, <<0, 0, 7, 0, 0, 0, 0>>,
                 <<10, 20, 30, 40, 50, 60, 70>>, <<3, 1, 4, 1, 5, 9, 2>>}

RECURSIVE Flatten(_)
Flatten(ss) == IF ss = <<>> THEN <<>> ELSE Head(ss) \o Flatten(Tail(ss))

\* short histories, and histories of whole weeks
SeasonalSeries ==
    UNION {[1..n -> SeasonalValues] : n \in 1..MaxHistory}
        \cup {Flatten(weeks) : weeks \in UNION {[1..w -> WeekPatterns] : w \in 1..MaxWeeks}}

\* the history of the first group on consecutive days from start, stored newest first,
\* with or without two days of the second group
RawTable(series, start, other) ==
    Reversed([i \in 1..Len(series) |-> RawRow(GroupKeys[1], start + i - 1, series[i])])
        \o (IF other THEN <<RawRow(GroupKeys[2], start, 8), RawRow(GroupKeys[2], start + 1, 2)>>
            ELSE <<>>)

RawTables ==
    {RawTable(series, start, other) :
        series \in SeasonalSeries, start \in 0..6, other \in BOOLEAN}

forecast_days_default == 7

ForecastDaysChoices == {3, forecast_days_default}

(* The seasonal specification *)

InitSeasonal ==
    /\ RAW_STOCK \in RawTables
    /\ seasonal = <<>>
    /\ DetectorIdle
    /\ AlertIdle
    /\ GeneratorIdle
    /\ stock_raw = <<>>
    /\ forecast_horizons = APP_CONFIG.forecast_days
    /\ min_data_points = APP_CONFIG.min_data_points
    /\ today = 1
    /\ forecast_output = <<>>
    /\ run = [outcome |-> "none", forecasts |-> <<>>]
    /\ key = GroupKeys[1]
    /\ data = <<>>
    /\ result = <<>>
    /\ prev_result = <<>>
    /\ calc = <<>>
    /\ calls = 0

\* SeasonalForecaster.create_seasonal_forecast(location, item, forecast_days)
create_seasonal_forecast(location, item, forecast_days) ==
    /\ seasonal' = <<SeasonalForecast(RAW_STOCK, location, item, forecast_days)>>
    /\ UNCHANGED <<RAW_STOCK, pipeVars, itemVars, today, forecast_horizons, min_data_points,
                   detectorVars, alertVars, generatorVars>>

NextSeasonal ==
    \E g \in DOMAIN GroupKeys, forecast_days \in ForecastDaysChoices :
        create_seasonal_forecast(GroupKeys[g].location, GroupKeys[g].item, forecast_days)

SpecSeasonal == InitSeasonal /\ [][NextSeasonal]_vars

----------------------------------------------------------------------------
(* The alert sender (python/alert_sender.py) with the email notifier       *)
(* (python/email_notifier.py), the Slack notifier                          *)
(* (python/slack_notifier.py) and their settings                           *)
(* (python/notification_config.py).                                        *)
(* A frame of alerts is [has_alert_type, rows]: whether it has the column  *)
(* ALERT_TYPE beside STOCK_STATUS, and its rows.  What a call did is a log *)
(* of events [channel, op, alerts] in the order they happened.             *)

MaxAlerts == 2

\* EMAIL_CONFIG, as far as the notifier reads it; use_tls at its default
EMAIL_CONFIG(env) ==
    [enabled |-> env.EMAIL_NOTIFICATIONS_ENABLED,
     use_tls |-> TRUE,
     alert_levels |-> {"OUT_OF_STOCK", "CRITICAL"}]

\* SLACK_CONFIG
SLACK_CONFIG(env) ==
    [enabled |-> env.SLACK_NOTIFICATIONS_ENABLED,
     alert_levels |-> {"OUT_OF_STOCK", "CRITICAL", "WARNING"}]

NOTIFICATION_RULES ==
    [quiet_hours_enabled |-> FALSE, quiet_hours_start |-> 22, quiet_hours_end |-> 7,
     group_alerts |-> TRUE, group_threshold |-> 5]

is_quiet_hours(current_hour) ==
    IF ~NOTIFICATION_RULES.quiet_hours_enabled THEN FALSE
    ELSE IF NOTIFICATION_RULES.quiet_hours_start < NOTIFICATION_RULES.quiet_hours_end
         THEN /\ NOTIFICATION_RULES.quiet_hours_start <= current_hour
              /\ current_hour < NOTIFICATION_RULES.quiet_hours_end
    ELSE \/ current_hour >= NOTIFICATION_RULES.quiet_hours_start
         \/ current_hour < NOTIFICATION_RULES.quiet_hours_end

\* AlertSender._load_config: console always, email and slack by their switches
load_config(env) ==
    <<"console">>
        \o (IF env.EMAIL_NOTIFICATIONS_ENABLED THEN <<"email">> ELSE <<>>)
        \o (IF env.SLACK_NOTIFICATIONS_ENABLED THEN <<"slack">> ELSE <<>>)

valid_channels == {"console", "email", "slack"}

In(ch, channels) == \E i \in DOMAIN channels : channels[i] = ch

Event(channel, op, rows) == [channel |-> channel, op |-> op, alerts |-> rows]

\* alerts_df[STOCK_STATUS.isin(levels) | ALERT_TYPE.isin(levels)]
ByLevels(rows, levels) ==
    SelectSeq(rows, LAMBDA a : a.STOCK_STATUS \in levels \/ a.ALERT_TYPE \in levels)

\* EmailNotifier.connect under an SMTP server that behaves as fate says: whether it
\* returned True, and the connection it left in self.smtp_connection.  A constructor
\* that raises leaves None; starttls or login raising leaves the open connection.
connect(config, fate) ==
    IF fate = "connect_refused" THEN [ok |-> FALSE, smtp_connection |-> "None"]
    ELSE IF config.use_tls /\ fate = "starttls_failed"
         THEN [ok |-> FALSE, smtp_connection |-> "open"]
    ELSE IF fate = "login_failed" THEN [ok |-> FALSE, smtp_connection |-> "open"]
    ELSE [ok |-> TRUE, smtp_connection |-> "open"]

\* EmailNotifier.disconnect: quit() closes the connection; it raises when the server
\* is already gone, which leaves the connection closed as well
disconnect(smtp_connection, quit_ok) ==
    IF smtp_connection = "None" THEN [raised |-> FALSE, smtp_connection |-> "None"]
    ELSE [raised |-> smtp_connection = "closed" \/ ~quit_ok, smtp_connection |-> "closed"]

EmailCall(returned, log, smtp_connection) ==
    [returned |-> returned, log |-> log, smtp_connection |-> smtp_connection]

\* EmailNotifier().send_alert_email(alerts_df): what it returned ("raised" when an
\* exception left it), what it did, and the state of the connection it leaves
send_alert_email(env, alerts_df, current_hour, fate) ==
    LET config == EMAIL_CONFIG(env)
        matching == ByLevels(alerts_df.rows, config.alert_levels)
        connected == connect(config, fate)
        opened == IF connected.smtp_connection = "None" THEN <<>>
                  ELSE <<Event("email", "connect", matching)>>
    IN  IF ~config.enabled \/ is_quiet_hours(current_hour) \/ alerts_df.rows = <<>>
        THEN EmailCall("False", <<>>, "None")
        \* alerts_df['ALERT_TYPE'] of a frame without the column: KeyError, before the try
        ELSE IF ~alerts_df.has_alert_type THEN EmailCall("raised", <<>>, "None")
        ELSE IF matching = <<>> THEN EmailCall("False", <<>>, "None")
        ELSE IF ~connected.ok
             THEN EmailCall("False", opened, connected.smtp_connection)
        ELSE IF fate = "create_failed" \/ fate = "send_refused"
             \* the handler disconnects
             THEN LET d == disconnect("open", TRUE)
                  IN  EmailCall("False", opened \o <<Event("email", "disconnect", matching)>>,
                                d.smtp_connection)
        ELSE IF fate = "send_disconnected"
             \* the handler's disconnect() raises on the connection the server dropped
             THEN LET d == disconnect("closed", TRUE)
                  IN  EmailCall(IF d.raised THEN "raised" ELSE "False", opened,
                                d.smtp_connection)
        ELSE LET d == disconnect("open", fate # "quit_failed")
                 again == disconnect(d.smtp_connection, TRUE)
             IN  IF d.raised
                 \* quit() raised after the send: the handler calls disconnect() again
                 THEN EmailCall(IF again.raised THEN "raised" ELSE "False",
                                opened \o <<Event("email", "send_message", matching)>>,
                                again.smtp_connection)
                 ELSE EmailCall("True",
                                opened \o <<Event("email", "send_message", matching),
                                            Event("email", "disconnect", matching)>>,
                                d.smtp_connection)

\* SlackNotifier().send_alert_message(alerts_df); the webhook answers as fate says
send_alert_message(env, alerts_df, current_hour, fate) ==
    LET config == SLACK_CONFIG(env)
        matching == ByLevels(alerts_df.rows, config.alert_levels)
        op == IF NOTIFICATION_RULES.group_alerts
                 /\ Len(matching) > NOTIFICATION_RULES.group_threshold
              THEN "_send_grouped_message" ELSE "_send_detailed_message"
    IN  IF ~config.enabled \/ is_quiet_hours(current_hour) \/ alerts_df.rows = <<>>
        THEN [returned |-> "False", log |-> <<>>]
        ELSE IF ~alerts_df.has_alert_type THEN [returned |-> "raised", log |-> <<>>]
        ELSE IF matching = <<>> THEN [returned |-> "False", log |-> <<>>]
        ELSE IF fate = "exception" THEN [returned |-> "False", log |-> <<>>]
        ELSE [returned |-> IF fate = "200" THEN "True" ELSE "False",
              log |-> <<Event("slack", op, matching)>>]

\* alerts_df[alerts_df['STOCK_STATUS'].isin(['OUT_OF_STOCK', 'CRITICAL', 'WARNING'])]
critical_mask(rows) ==
    SelectSeq(rows, LAMBDA a : a.STOCK_STATUS \in {"OUT_OF_STOCK", "CRITICAL", "WARNING"})

\* variant: an exception of the email notifier leaves send_alerts
AfterEmail_Propagating(channels, env, critical_alerts, current_hour, email, slack_fate) ==
    IF email # <<>> /\ email[1].returned = "raised"
    THEN [returned |-> "raised", log |-> <<>>]
    ELSE IF In("slack", channels) /\ critical_alerts.rows # <<>>
         THEN LET slack == send_alert_message(env, critical_alerts, current_hour, slack_fate)
              IN  [returned |-> "None",
                   log |-> <<Event("slack", "send_alert_message", critical_alerts.rows)>>
                           \o slack.log
                           \o (IF slack.returned = "raised"
                               THEN <<Event("slack", "failed", critical_alerts.rows)>>
                               ELSE <<>>)]
    ELSE [returned |-> "None", log |-> <<>>]

\* send_alerts from its third step on: the Slack notifier inside its try
AfterEmail(channels, env, critical_alerts, current_hour, email, slack_fate) ==
    IF In("slack", channels) /\ critical_alerts.rows # <<>>
    THEN LET slack == send_alert_message(env, critical_alerts, current_hour, slack_fate)
         IN  [returned |-> "None",
              log |-> <<Event("slack", "send_alert_message", critical_alerts.rows)>>
                      \o slack.log
                      \o (IF slack.returned = "raised"
                          THEN <<Event("slack", "failed", critical_alerts.rows)>>
                          ELSE <<>>)]
    ELSE [returned |-> "None", log |-> <<>>]

\* AlertSender.send_alerts(alerts_df): whether it returned or raised, the events in
\* order, and the email call it made, if any
SendAlerts(channels, env, alerts_df, current_hour, console_ok, smtp_fate, slack_fate) ==
    IF alerts_df.rows = <<>>
    THEN [alerts_df |-> alerts_df, returned |-> "None", log |-> <<>>, email |-> <<>>]
    ELSE LET critical_alerts == [has_alert_type |-> alerts_df.has_alert_type,
                                 rows |-> critical_mask(alerts_df.rows)]
             console == IF In("console", channels)
                        THEN <<Event("console", "_send_console_alerts", alerts_df.rows)>>
                        ELSE <<>>
             email == IF In("email", channels) /\ critical_alerts.rows # <<>>
                      THEN <<send_alert_email(env, critical_alerts, current_hour, smtp_fate)>>
                      ELSE <<>>
             email_log == IF email = <<>> THEN <<>>
                          ELSE <<Event("email", "send_alert_email", critical_alerts.rows)>>
                               \o email[1].log
                               \o (IF email[1].returned = "raised"
                                   THEN <<Event("email", "failed", critical_alerts.rows)>>
                                   ELSE <<>>)
             rest == AfterEmail(channels, env, critical_alerts, current_hour, email, slack_fate)
         IN  IF console # <<>> /\ ~console_ok
             \* _send_console_alerts is not inside a try
             THEN [alerts_df |-> alerts_df, returned |-> "raised", log |-> console,
                   email |-> <<>>]
             ELSE [alerts_df |-> alerts_df, returned |-> rest.returned,
                   log |-> console \o email_log \o rest.log, email |-> email]

(* Inputs of the alert sender *)

StockStatuses == {"OUT_OF_STOCK", "CRITICAL", "WARNING", "LOW"}

Alert(status, alert_type) == [STOCK_STATUS |-> status, ALERT_TYPE |-> alert_type]

\* frames whose ALERT_TYPE repeats STOCK_STATUS, frames without the column ALERT_TYPE,
\* one frame whose two columns disagree, and one frame above the grouping threshold
AlertFrames ==
    {[has_alert_type |-> h, rows |-> [i \in DOMAIN ss |-> Alert(ss[i], IF h THEN ss[i] ELSE "")]] :
        h \in BOOLEAN, ss \in UNION {[1..n -> StockStatuses] : n \in 0..MaxAlerts}}
        \cup {[has_alert_type |-> TRUE,
               rows |-> <<Alert("WARNING", "CRITICAL"), Alert("LOW", "LOW")>>],
              [has_alert_type |-> TRUE,
               rows |-> [i \in 1..6 |-> IF i = 2 THEN Alert("LOW", "LOW")
                                        ELSE Alert("CRITICAL", "CRITICAL")]]}

Environments ==
    [EMAIL_NOTIFICATIONS_ENABLED : BOOLEAN, SLACK_NOTIFICATIONS_ENABLED : BOOLEAN]

ChannelChoices == {<<"slack", "email", "console">>, <<"email">>, <<"sms", "slack">>}

SmtpFates == {"ok", "connect_refused", "starttls_failed", "login_failed", "create_failed",
              "send_refused", "send_disconnected", "quit_failed"}

SlackFates == {"200", "500", "exception"}

Hours == {3, 12}

(* The alert specification: one process, which sends its alerts once *)

InitAlerts ==
    /\ environ \in Environments
    /\ alert_channels = load_config(environ)
    /\ alerts \in AlertFrames
    /\ sent = <<>>
    /\ mail = <<>>
    /\ GeneratorIdle
    /\ DetectorIdle
    /\ SeasonalIdle
    /\ stock_raw = <<>>
    /\ forecast_horizons = APP_CONFIG.forecast_days
    /\ min_data_points = APP_CONFIG.min_data_points
    /\ today = 1
    /\ forecast_output = <<>>
    /\ run = [outcome |-> "none", forecasts |-> <<>>]
    /\ key = GroupKeys[1]
    /\ data = <<>>
    /\ result = <<>>
    /\ prev_result = <<>>
    /\ calc = <<>>
    /\ calls = 0

AlertsUnchanged ==
    UNCHANGED <<pipeVars, itemVars, today, forecast_horizons, min_data_points,
                detectorVars, seasonalVars, generatorVars>>

\* AlertSender.configure_channels(channels)
configure_channels(channels) ==
    /\ sent = <<>>
    /\ mail = <<>>
    /\ alert_channels' = SelectSeq(channels, LAMBDA ch : ch \in valid_channels)
    /\ UNCHANGED <<environ, alerts, sent, mail>>
    /\ AlertsUnchanged

\* AlertSender.send_alerts(alerts)
send_alerts(current_hour, console_ok, smtp_fate, slack_fate) ==
    /\ sent = <<>>
    /\ mail = <<>>
    /\ sent' = <<SendAlerts(alert_channels, environ, alerts, current_hour, console_ok,
                            smtp_fate, slack_fate)>>
    /\ UNCHANGED <<environ, alert_channels, alerts, mail>>
    /\ AlertsUnchanged

\* EmailNotifier().send_alert_email(alerts), called directly
send_alert_email_directly(current_hour, smtp_fate) ==
    /\ sent = <<>>
    /\ mail = <<>>
    /\ mail' = <<send_alert_email(environ, alerts, current_hour, smtp_fate)>>
    /\ UNCHANGED <<environ, alert_channels, alerts, sent>>
    /\ AlertsUnchanged

NextAlerts ==
    \/ \E channels \in ChannelChoices : configure_channels(channels)
    \/ \E current_hour \in Hours, console_ok \in BOOLEAN, smtp_fate \in SmtpFates,
          slack_fate \in SlackFates :
          send_alerts(current_hour, console_ok, smtp_fate, slack_fate)
    \/ \E current_hour \in Hours, smtp_fate \in SmtpFates :
          send_alert_email_directly(current_hour, smtp_fate)

SpecAlerts == InitAlerts /\ [][NextAlerts]_vars

----------------------------------------------------------------------------
(* The stock data generator (python/generate_stock_data.py).               *)
(* A random draw is an input of the loop body it is made in.  position is  *)
(* the (day, key) of the next loop body, with the locals of the body that  *)
(* ran last.                                                               *)

MaxGenDays == 2

\* the (location, item) pairs, in the order of the two inner loops
GenKeys == <<[location |-> "Chennai", item |-> "Paracetamol"],
             [location |-> "Chennai", item |-> "ORS"]>>

\* int(x) of a quotient n / d: truncation towards zero
int(n, d) == IF n >= 0 THEN n \div d ELSE 0 - ((0 - n) \div d)

min(a, b) == IF a <= b THEN a ELSE b
max(a, b) == IF a >= b THEN a ELSE b

\* issued: int(current_stock * uniform), then min(issued, current_stock);
\* uniform is the fraction uniform[1] / uniform[2]
issued_qty(current_stock, uniform) ==
    min(int(current_stock * uniform[1], uniform[2]), current_stock)

\* received: a replenishment when random.random() < 0.15, in hundredths
received_qty(random_pct, randint) == IF random_pct < 15 THEN randint ELSE 0

\* variant: the replenishment is not added to the stock
new_stock_WithoutReceipt(current_stock, issued, received) ==
    max(0, current_stock - issued)

\* new_stock: current_stock - issued + received, then max(0, new_stock)
new_stock(current_stock, issued, received) ==
    max(0, current_stock - issued + received)

(* Inputs of the generator *)

\* random.randint(50, 250)
StartingStocks == {50, 250}

\* np.random.uniform(0.05, 0.30)
UniformDraws == {<<5, 100>>, <<2999, 10000>>}

\* random.random(), in hundredths
RandomDraws == {14, 15}

\* random.randint(50, 150)
ReplenishmentDraws == {50, 150}

(* The generator specification *)

InitGenerator ==
    /\ num_days \in 1..MaxGenDays
    /\ stock_levels \in [DOMAIN GenKeys -> StartingStocks]
    /\ gen_data = <<>>
    /\ position = [day |-> 0, k |-> 1, locals |-> <<>>]
    /\ AlertIdle
    /\ DetectorIdle
    /\ SeasonalIdle
    /\ stock_raw = <<>>
    /\ forecast_horizons = APP_CONFIG.forecast_days
    /\ min_data_points = APP_CONFIG.min_data_points
    /\ today = 1
    /\ forecast_output = <<>>
    /\ run = [outcome |-> "none", forecasts |-> <<>>]
    /\ key = GroupKeys[1]
    /\ data = <<>>
    /\ result = <<>>
    /\ prev_result = <<>>
    /\ calc = <<>>
    /\ calls = 0

\* one body of the innermost loop of generate_realistic_stock_data
generate_record(uniform, random_pct, randint) ==
    /\ position # <<>>
    /\ position.day < num_days
    /\ LET k == position.k
           current_stock == stock_levels[k]
           issued == issued_qty(current_stock, uniform)
           received == received_qty(random_pct, randint)
           new == new_stock(current_stock, issued, received)
       IN  /\ gen_data' = Append(gen_data,
                                 [location |-> GenKeys[k].location, item |-> GenKeys[k].item,
                                  current_stock |-> new, issued_qty |-> issued,
                                  received_qty |-> received,
                                  last_updated_date |-> position.day])
           /\ stock_levels' = [stock_levels EXCEPT ![k] = new]
           /\ position' = [day |-> IF k = Len(GenKeys) THEN position.day + 1
                                   ELSE position.day,
                           k |-> IF k = Len(GenKeys) THEN 1 ELSE k + 1,
                           locals |-> <<[k |-> k, current_stock |-> current_stock,
                                         issued |-> issued, received |-> received,
                                         new_stock |-> new]>>]
    /\ UNCHANGED <<num_days, pipeVars, itemVars, today, forecast_horizons, min_data_points,
                   detectorVars, seasonalVars, alertVars>>

NextGenerator ==
    \E uniform \in UniformDraws, random_pct \in RandomDraws, randint \in ReplenishmentDraws :
        generate_record(uniform, random_pct, randint)

SpecGenerator == InitGenerator /\ [][NextGenerator]_vars

----------------------------------------------------------------------------
(* Properties of the forecaster *)

Forecasted == result # <<>> /\ calc # <<>>

\* wma * h + slope * h before the clamp
Unclamped(l, h) == RAdd(RScale(l.wma, h), RScale(l.slope, h))

NonNegativeData == \A i \in DOMAIN data : data[i].issued >= 0

\* C1: for every forecast group with non-negative issued values, demand_next_7_days
\* and demand_next_14_days are >= 0, also when the slope is negative and
\* wma*h + slope*h is below zero.
C1_NonNegativeDemand ==
    (Forecasted /\ NonNegativeData) =>
        /\ result[1].demand_next_7_days >= 0
        /\ result[1].demand_next_14_days >= 0

C1_Witness ==
    /\ Forecasted
    /\ NonNegativeData
    /\ calc[1].slope.num < 0
    /\ Unclamped(calc[1], 7).num < 0
    /\ Unclamped(calc[1], 14).num < 0
    /\ result[1].demand_next_7_days = 0
    /\ result[1].demand_next_14_days = 0

DeclineForecasted == Forecasted /\ data = SeriesFrame(key, DeclineSeries)

\* C2 as stated: for the issued sequence [100, 80, 60, 40, 20] the 7-day forecast is 0.
C2_DeclineForecastIsZero ==
    DeclineForecasted => result[1].demand_next_7_days = 0

\* C2: for the issued sequence [100, 80, 60, 40, 20] the weighted average is 140/3,
\* the slope is -20, the projection 7 * (140/3 - 20) is positive and is not clamped:
\* the 7-day forecast is 186.67.
C2_DeclineForecast ==
    DeclineForecasted =>
        /\ calc[1].wma = Rat(140, 3)
        /\ calc[1].slope = RInt(0 - 20)
        /\ result[1].demand_next_7_days = 18667

C2_Witness == DeclineForecasted /\ calc[1].slope.num < 0

\* C3 as stated: for each horizon h in forecast_horizons the forecast carries a value
\* for h, and it is max(0, wma*h + slope*h) (to the two decimals the dict keeps).
C3_EveryConfiguredHorizon ==
    Forecasted =>
        \A j \in DOMAIN forecast_horizons :
            LET h == forecast_horizons[j]
            IN  /\ h \in ResultHorizons
                /\ DemandNext(result[1], h) = Round2(RMax0(Unclamped(calc[1], h)))

\* the rows of a (location, item) in a table, counted without the model's grouping
CountRows(tbl, k) ==
    Cardinality({i \in DOMAIN tbl : tbl[i].location = k.location /\ tbl[i].item = k.item})

CountForecasts(fs, k) ==
    Cardinality({i \in DOMAIN fs : fs[i].location = k.location /\ fs[i].item = k.item})

\* a step of calculate_forecasts that returned (a DataFrame or None)
RunReturned ==
    /\ UNCHANGED <<stock_raw, today>>
    /\ run' # run
    /\ run'.outcome \in {"saved", "no_data", "no_forecasts"}

\* C4: a run yields exactly one forecast for every (location,item) with at least
\* min_data_points records and none for a group with fewer, whatever the other groups are.
C4_OneForecastPerEligibleGroup ==
    [][RunReturned =>
          \A g \in DOMAIN GroupKeys :
              CountForecasts(run'.forecasts, GroupKeys[g]) =
                  (IF CountRows(stock_raw, GroupKeys[g]) >= min_data_points THEN 1 ELSE 0)]_vars

\* min_data_points = 3: the first group has 2 records and is skipped, the loop goes on
\* and the second group, with 3 records, is forecast
C4_Witness ==
    /\ min_data_points = 3
    /\ run.outcome = "saved"
    /\ CountRows(stock_raw, GroupKeys[1]) = 2
    /\ CountRows(stock_raw, GroupKeys[2]) = 3
    /\ Len(run.forecasts) = 1
    /\ run.forecasts[1].item = GroupKeys[2].item
    /\ run.forecasts[1].data_points = 3

SecondCall == calls >= 2 /\ result # <<>> /\ prev_result # <<>>

WithoutDate(f) == [f EXCEPT !.forecast_date = 0]

RunCompleted == run.outcome \in {"saved", "no_data", "no_forecasts"}

\* C6 as stated: after a run, forecast_output holds exactly the forecasts of that run.
C6_OutputIsLatestRun == RunCompleted => forecast_output = output_df(run.forecasts)

\* the position of row i when the rows are put in ascending record_date order
DateRank(df, i) == Cardinality({j \in DOMAIN df : df[j].record_date <= df[i].record_date})

TriangleNumber(n) == (n * (n + 1)) \div 2

\* C7: the weighted average gives weight i to the i-th record in ascending record_date
\* order and divides by 1 + ... + n, whatever order the rows came in.
C7_WeightsFollowDateOrder ==
    Forecasted =>
        calc[1].wma = Rat(Sum([i \in 1..Len(data) |-> DateRank(data, i) * data[i].issued]),
                          TriangleNumber(Len(data)))

\* the rows did not come in date order and the order changes the weighted average
C7_Witness ==
    /\ Forecasted
    /\ \E i, j \in DOMAIN data : i < j /\ data[i].record_date > data[j].record_date
    /\ calc[1].wma # Rat(Sum([i \in 1..Len(data) |-> i * data[i].issued]), TriangleNumber(Len(data)))

StrictlyIncreasing(s) == \A i \in 1..(Len(s) - 1) : s[i] < s[i + 1]

\* C8: for a strictly increasing issued sequence of length >= 2 the weighted moving
\* average is strictly greater than the simple moving average.
C8_WeightedAboveSimple ==
    (Forecasted /\ Len(calc[1].issued) >= 2 /\ StrictlyIncreasing(calc[1].issued)) =>
        RLt(calc[1].sma, calc[1].wma)

C8_Witness ==
    /\ Forecasted
    /\ Len(calc[1].issued) >= 2
    /\ StrictlyIncreasing(calc[1].issued)
    /\ calc[1].issued # Issued(data)

\* n * sum(x^2) - sum(x)^2: n^2 times the population variance of the issued values
SpreadOf(a) == Len(a) * Sum(Times(a, a)) - Sum(a) * Sum(a)

\* the score s (in hundredths) is 1 - sqrt(spread)/total rounded to two decimals:
\* |(100 - s) - 100 * sqrt(spread) / total| <= 1/2, written without the root
IsRoundedOneMinusCv(s, spread, total) ==
    LET c == 100 - s
    IN  /\ (2 * c - 1 <= 0) \/ ((2 * c - 1) * (2 * c - 1) * total * total <= 40000 * spread)
        /\ 40000 * spread <= (2 * c + 1) * (2 * c + 1) * total * total

\* C9: the confidence score is clamp(1 - cv, 0, 1) with cv = stddev/mean when mean > 0
\* and cv = 1 otherwise: it lies in [0,1], it is 0 for a series of mean 0, and it is
\* 1 - stddev/mean (to the two decimals kept) when that lies between 0 and 1.
C9_ConfidenceIsClampedOneMinusCv ==
    Forecasted =>
        LET a == calc[1].issued
            total == Sum(a)
            spread == SpreadOf(a)
            score == result[1].confidence_score
        IN  /\ score \in 0..100
            /\ (total <= 0) => score = 0
            /\ (total > 0 /\ spread >= total * total) => score = 0
            /\ (total > 0 /\ spread < total * total) => IsRoundedOneMinusCv(score, spread, total)

\* a series of mean 0 was forecast and got confidence 0
C9_Witness ==
    /\ Forecasted
    /\ Sum(calc[1].issued) = 0
    /\ result[1].confidence_score = 0

ScenarioForecasted ==
    /\ Forecasted
    /\ data = SeriesFrame(key, ScenarioSeries)
    /\ min_data_points = 3
    /\ forecast_horizons = <<7, 14>>

\* C10: for the 14-day scenario series the slope lies between 1.7 and 1.9, the
\* confidence score is above 0.7 and demand_next_7_days exceeds avg_daily_demand * 7.
C10_Scenario ==
    ScenarioForecasted =>
        /\ RLt(Rat(17, 10), calc[1].slope)
        /\ RLt(calc[1].slope, Rat(19, 10))
        /\ result[1].trend_slope > 170
        /\ result[1].trend_slope < 190
        /\ result[1].confidence_score > 70
        /\ result[1].demand_next_7_days > result[1].avg_daily_demand * 7

C10_Witness == ScenarioForecasted /\ result[1].data_points = 14

\* the frame with its rows rotated by one place, and with its first two rows exchanged:
\* every reordering of the rows is a composition of these two
Rotated(df) == [i \in 1..Len(df) |-> df[(i % Len(df)) + 1]]
FirstTwoSwapped(df) ==
    [i \in 1..Len(df) |-> IF Len(df) >= 2 /\ i <= 2 THEN df[3 - i] ELSE df[i]]

\* C11: the series of a group is its issued values in ascending record_date order, one
\* element per stored record and none for a missing day, so the forecast is the same
\* whatever the order in which the rows are read.
C11_SeriesIsRecordsInDateOrder ==
    Forecasted =>
        /\ Len(calc[1].issued) = Len(data)
        /\ result[1].data_points = Len(data)
        /\ \A i \in DOMAIN data : calc[1].issued[DateRank(data, i)] = data[i].issued
        /\ \A df \in {Rotated(data), FirstTwoSwapped(data)} :
              ForecastGroupBody(key.location, key.item, df,
                                result[1].forecast_date, min_data_points) = result

\* a day between the first and the last record is missing, the rows were not read in
\* date order, and the series has as many elements as there are records
C11_Witness ==
    /\ Forecasted
    /\ \E d \in 1..MaxDate :
          /\ \A i \in DOMAIN data : data[i].record_date # d
          /\ \E i, j \in DOMAIN data : data[i].record_date < d /\ d < data[j].record_date
    /\ \E i, j \in DOMAIN data : i < j /\ data[i].record_date > data[j].record_date
    /\ calc[1].issued # Issued(data)
    /\ Len(calc[1].issued) = Len(data)

\* the forecasts of key k among fs
ForecastsOfKey(fs, k) == SelectSeq(fs, LAMBDA f : f.location = k.location /\ f.item = k.item)

\* C12: the forecast of a (location,item) in a run over the whole table is the forecast
\* a run over that group's records alone gives: the records of other groups and the
\* place of the group in the loop have no influence.
C12_GroupForecastIndependent ==
    [][RunReturned =>
          \A g \in DOMAIN GroupKeys :
              ForecastsOfKey(run'.forecasts, GroupKeys[g]) =
                  ForecastsUpTo(GroupRows(stock_raw, GroupKeys[g]), Len(GroupKeys),
                                today, min_data_points)]_vars

\* one run forecast both groups, from different records
C12_Witness ==
    /\ run.outcome = "saved"
    /\ Len(run.forecasts) = 2
    /\ run.forecasts[1].data_points # run.forecasts[2].data_points
    /\ run.forecasts[1].demand_next_7_days # run.forecasts[2].demand_next_7_days

\* C13: a forecast run leaves stock_raw as it was, whatever its outcome; of the tables
\* only forecast_output is written.
C13_RunLeavesStockRaw ==
    [][(run' # run) => stock_raw' = stock_raw]_vars

\* the table held records when a run failed to save, after an earlier run had saved
C13_Witness ==
    /\ run.outcome = "save_failed"
    /\ stock_raw # <<>>
    /\ forecast_output # <<>>
    /\ forecast_output # output_df(run.forecasts)

----------------------------------------------------------------------------
(* Properties of the anomaly detector *)

UsageCalled == results.detect_usage_anomalies # <<>>
UsageResults == results.detect_usage_anomalies[1]
UsageReturned == report.detect_usage_anomalies[1]

SameDay(r, s) ==
    r.location = s.location /\ r.item = s.item /\ r.record_date = s.record_date

ConstantGroup(tbl, r) == \A i \in DOMAIN tbl :
    (tbl[i].location = r.location /\ tbl[i].item = r.item) => tbl[i].issued = r.issued

StatusOfScore(z_sq) ==
    IF RLtReduced(Rat(25, 4), z_sq) THEN "ANOMALY"
    ELSE IF RLtReduced(RInt(4), z_sq) THEN "WARNING"
    ELSE "NORMAL"

\* C14: every point of a group with a positive deviation gets exactly one status:
\* ANOMALY above 2.5 deviations, else WARNING above 2.0, else NORMAL, the bounds 2.0
\* and 2.5 themselves falling in the lower status; the points returned are exactly
\* the WARNING and ANOMALY ones
C14_StatusByStrictThresholds ==
    UsageCalled =>
        /\ \A i \in DOMAIN UsageResults :
              /\ UsageResults[i].anomaly_status = StatusOfScore(UsageResults[i].z_score.sq)
              /\ UsageResults[i].z_score.sq = RInt(4) => UsageResults[i].anomaly_status = "NORMAL"
              /\ UsageResults[i].z_score.sq = Rat(25, 4) =>
                     UsageResults[i].anomaly_status = "WARNING"
              /\ (\E j \in DOMAIN UsageReturned : UsageReturned[j] = UsageResults[i])
                     <=> UsageResults[i].anomaly_status \in {"WARNING", "ANOMALY"}
        /\ \A j \in DOMAIN UsageReturned : \E i \in DOMAIN UsageResults :
              UsageReturned[j] = UsageResults[i]
        /\ \A i \in DOMAIN stock_raw :
              ~ConstantGroup(stock_raw, stock_raw[i]) =>
                  Cardinality({j \in DOMAIN UsageResults :
                                  SameDay(UsageResults[j], stock_raw[i])}) = 1

C14_Witness ==
    /\ UsageCalled
    /\ \E i \in DOMAIN UsageResults :
          /\ UsageResults[i].z_score.sq = Rat(25, 4)
          /\ UsageResults[i].anomaly_status = "WARNING"
    /\ \E i \in DOMAIN UsageReturned : UsageReturned[i].anomaly_status = "ANOMALY"
    /\ \E i \in DOMAIN UsageResults : UsageResults[i].anomaly_status = "NORMAL"
    /\ Len(UsageReturned) < Len(UsageResults)

\* C15: no point of a group whose issued values are all equal is scored or returned
\* by detect_usage_anomalies
C15_ZeroVarianceExcluded ==
    UsageCalled =>
        \A i \in DOMAIN stock_raw :
            ConstantGroup(stock_raw, stock_raw[i]) =>
                /\ \A j \in DOMAIN UsageResults : ~SameDay(UsageResults[j], stock_raw[i])
                /\ \A j \in DOMAIN UsageReturned : ~SameDay(UsageReturned[j], stock_raw[i])

C15_Witness ==
    /\ UsageCalled
    /\ \E i \in DOMAIN stock_raw :
          /\ ConstantGroup(stock_raw, stock_raw[i])
          /\ stock_raw[i].issued = 9000
          /\ Len(Partition(stock_raw, stock_raw[i])) = 3
    /\ UsageReturned # <<>>

SpikeScored ==
    UsageCalled /\ Issued(Partition(stock_raw, GroupKeys[1])) = SpikeSeries

SpikeRows == SelectSeq(UsageResults, LAMBDA r : r.location = GroupKeys[1].location
                                              /\ r.item = GroupKeys[1].item)

\* C16 as claimed: in the group 10, 11, 9, 10, 12, 50, 11 the 50 scores above 2.5 and is
\* an ANOMALY, every other point NORMAL
C16_SpikeIsAnomaly ==
    SpikeScored =>
        \A i \in DOMAIN SpikeRows :
            IF SpikeRows[i].record_date = 6
            THEN /\ RLtReduced(Rat(25, 4), SpikeRows[i].z_score.sq)
                 /\ SpikeRows[i].anomaly_status = "ANOMALY"
            ELSE SpikeRows[i].anomaly_status = "NORMAL"

\* C16: in the group 10, 11, 9, 10, 12, 50, 11 (mean 113/7) the 50 scores
\* sqrt(168507/32900), about 2.26: between 2.0 and 2.5, a WARNING; every other point
\* is NORMAL, and the 50 is the one point of the group returned
C16_SpikeIsWarning ==
    SpikeScored =>
        /\ Len(SpikeRows) = 7
        /\ \A i \in DOMAIN SpikeRows :
              /\ SpikeRows[i].avg_usage = Rat(11300, 7)
              /\ IF SpikeRows[i].record_date = 6
                 THEN /\ SpikeRows[i].issued = 5000
                      /\ SpikeRows[i].z_score.sq = Rat(168507, 32900)
                      /\ RLtReduced(RInt(4), SpikeRows[i].z_score.sq)
                      /\ RLtReduced(SpikeRows[i].z_score.sq, Rat(25, 4))
                      /\ SpikeRows[i].anomaly_status = "WARNING"
                 ELSE SpikeRows[i].anomaly_status = "NORMAL"
        /\ \A j \in DOMAIN UsageReturned :
              UsageReturned[j].location = GroupKeys[1].location
                  /\ UsageReturned[j].item = GroupKeys[1].item
                  => UsageReturned[j].record_date = 6

C16_Witness ==
    /\ SpikeScored
    /\ \E j \in DOMAIN UsageReturned :
          /\ UsageReturned[j].issued = 5000
          /\ UsageReturned[j].record_date = 6
          /\ UsageReturned[j].anomaly_status = "WARNING"

\* the signed distance of a scored point from its group mean
Offset(r) == RSub(RInt(r.issued), r.avg_usage)

\* C17: the z-score is abs(x - mean) / stddev for a positive stddev and 0 otherwise;
\* it carries no sign, so two points of a group equally far above and below the mean
\* have the same z-score and the same status
C17_ZScoreSymmetric ==
    UsageCalled =>
        /\ \A i \in DOMAIN UsageResults :
              /\ ~UsageResults[i].z_score.neg
              /\ RMulReduced(UsageResults[i].z_score.sq, UsageResults[i].stddev_usage_sq[1])
                     = RSq(Offset(UsageResults[i]))
              /\ UsageResults[i].avg_usage = np_mean(Issued(Partition(stock_raw, UsageResults[i])))
        /\ \A i, j \in DOMAIN UsageResults :
              (/\ UsageResults[i].location = UsageResults[j].location
               /\ UsageResults[i].item = UsageResults[j].item
               /\ Offset(UsageResults[i]) = RScale(Offset(UsageResults[j]), 0 - 1))
                  => /\ UsageResults[i].z_score = UsageResults[j].z_score
                     /\ UsageResults[i].anomaly_status = UsageResults[j].anomaly_status
        /\ \A i \in DOMAIN stock_raw :
              ConstantGroup(stock_raw, stock_raw[i]) =>
                  UsageRow(stock_raw, stock_raw[i]).z_score = [neg |-> FALSE, sq |-> RInt(0)]

C17_Witness ==
    /\ UsageCalled
    /\ \E i, j \in DOMAIN UsageReturned :
          /\ UsageReturned[i].location = UsageReturned[j].location
          /\ UsageReturned[i].item = UsageReturned[j].item
          /\ UsageReturned[i].issued < UsageReturned[j].issued
          /\ Offset(UsageReturned[i]) = RScale(Offset(UsageReturned[j]), 0 - 1)
          /\ UsageReturned[i].z_score.sq = Rat(9, 2)
          /\ UsageReturned[i].anomaly_status = "WARNING"

ChangesCalled == results.detect_sudden_changes # <<>>
ChangesFound == report.detect_sudden_changes[1].rows
ChangesThreshold == report.detect_sudden_changes[1].threshold_percent

\* abs((curr - prev) / prev) * 100 > threshold, for prev > 0
Swing(curr, prev, threshold) == Abs(curr - prev) * 100 > threshold * prev

\* the day before row r in its group, <<>> for the first day
DayBefore(tbl, r) ==
    SelectSeq(tbl, LAMBDA s : /\ s.location = r.location /\ s.item = r.item
                              /\ s.record_date = r.record_date - 1)

\* C18 as claimed: a returned day is flagged for closing stock or for issued only on
\* a previous-day value above 0 that the day's value swings from by more than
\* threshold_percent, and every day with such a swing in either metric is returned
C18_NoFlagOnNonPositiveBaseline ==
    ChangesCalled =>
        /\ \A j \in DOMAIN ChangesFound :
              /\ ChangesFound[j].change_type = "SUDDEN_STOCK_CHANGE" =>
                    /\ ChangesFound[j].prev_closing_stock[1] > 0
                    /\ Swing(ChangesFound[j].closing_stock,
                             ChangesFound[j].prev_closing_stock[1], ChangesThreshold)
              /\ ChangesFound[j].change_type = "SUDDEN_USAGE_CHANGE" =>
                    /\ ChangesFound[j].prev_issued[1] > 0
                    /\ Swing(ChangesFound[j].issued,
                             ChangesFound[j].prev_issued[1], ChangesThreshold)
        /\ \A i \in DOMAIN stock_raw :
              LET before == DayBefore(stock_raw, stock_raw[i])
              IN  (/\ before # <<>>
                   /\ \/ /\ before[1].closing_stock > 0
                         /\ Swing(stock_raw[i].closing_stock, before[1].closing_stock,
                                  ChangesThreshold)
                      \/ /\ before[1].issued > 0
                         /\ Swing(stock_raw[i].issued, before[1].issued, ChangesThreshold))
                  => \E j \in DOMAIN ChangesFound : SameDay(ChangesFound[j], stock_raw[i])

StockoutsCalled == results.detect_stockout_patterns # <<>>
StockoutPatterns == report.detect_stockout_patterns[1]

PatternsOf(k) == SelectSeq(StockoutPatterns,
                           LAMBDA p : p.location = k.location /\ p.item = k.item)

TotalDays(k) == Len(GroupRows(stock_raw, k))
StockoutDays(k) == Len(SelectSeq(GroupRows(stock_raw, k), LAMBDA r : r.closing_stock <= 0))

\* stockout_rate_pct is days * 100 / total, to the nearest hundredth
IsStockoutRate(rate_pct, days, total) ==
    2 * Abs(rate_pct * total - days * 10000) <= total

BucketOf(days, total) ==
    IF days = 0 THEN "NO_STOCKOUTS"
    ELSE IF days * 100 <= 10 * total THEN "RARE_STOCKOUTS"
    ELSE IF days * 100 <= 20 * total THEN "OCCASIONAL_STOCKOUTS"
    ELSE "FREQUENT_STOCKOUTS"

\* C19 as claimed: every group of stock_raw is classified into one bucket by its
\* stock-out rate, NO_STOCKOUTS when the rate is 0
C19_EveryGroupBucketed ==
    StockoutsCalled =>
        \A g \in DOMAIN GroupKeys :
            TotalDays(GroupKeys[g]) > 0 =>
                /\ Len(PatternsOf(GroupKeys[g])) = 1
                /\ PatternsOf(GroupKeys[g])[1].pattern_type =
                       BucketOf(StockoutDays(GroupKeys[g]), TotalDays(GroupKeys[g]))

\* C19: a group without a stock-out day is left out of the result; a group with one
\* gets one row, with stockout_rate = stockout_days / total_days * 100 and the bucket
\* RARE_STOCKOUTS (rate <= 10), OCCASIONAL_STOCKOUTS (10 < rate <= 20) or
\* FREQUENT_STOCKOUTS (rate > 20); NO_STOCKOUTS is never assigned
C19_StockoutGroupsBucketed ==
    StockoutsCalled =>
        /\ \A g \in DOMAIN GroupKeys :
              IF StockoutDays(GroupKeys[g]) = 0
              THEN PatternsOf(GroupKeys[g]) = <<>>
              ELSE /\ Len(PatternsOf(GroupKeys[g])) = 1
                   /\ PatternsOf(GroupKeys[g])[1].total_days = TotalDays(GroupKeys[g])
                   /\ PatternsOf(GroupKeys[g])[1].stockout_days = StockoutDays(GroupKeys[g])
                   /\ IsStockoutRate(PatternsOf(GroupKeys[g])[1].stockout_rate_pct,
                                     StockoutDays(GroupKeys[g]), TotalDays(GroupKeys[g]))
                   /\ PatternsOf(GroupKeys[g])[1].pattern_type =
                          BucketOf(StockoutDays(GroupKeys[g]), TotalDays(GroupKeys[g]))
        /\ \A j \in DOMAIN StockoutPatterns : StockoutPatterns[j].pattern_type # "NO_STOCKOUTS"

C19_Witness ==
    /\ StockoutsCalled
    /\ TotalDays(GroupKeys[2]) > 0
    /\ PatternsOf(GroupKeys[2]) = <<>>
    /\ Len(StockoutPatterns) = 1
    /\ StockoutPatterns[1].total_days = 10
    /\ StockoutPatterns[1].stockout_days = 2
    /\ StockoutPatterns[1].stockout_rate_pct = 2000
    /\ StockoutPatterns[1].pattern_type = "OCCASIONAL_STOCKOUTS"

QualityCalled == results.detect_data_quality_issues # <<>>
QualityIssues == report.detect_data_quality_issues[1]

IssuesOf(r) == SelectSeq(QualityIssues, LAMBDA q : SameDay(q, r))

Discrepancy(r) == Abs((r.opening_stock + r.received - r.issued) - r.closing_stock)

\* C20: detect_data_quality_issues reports a record exactly when a
\* quantity is negative, or closing differs from opening + received - issued by more
\* than 0.01, or issued exceeds opening + received; a reported record has one label,
\* the first that applies in the order closing, opening, received, issued, mismatch,
\* over-issue
C20_QualityLabelIsFirstMatch ==
    QualityCalled =>
        \A i \in DOMAIN stock_raw :
            LET r == stock_raw[i]
                negative == r.closing_stock < 0 \/ r.opening_stock < 0
                                \/ r.received < 0 \/ r.issued < 0
                bad == negative \/ Discrepancy(r) > 1 \/ r.issued > r.opening_stock + r.received
            IN  IF ~bad THEN IssuesOf(r) = <<>>
                ELSE /\ Len(IssuesOf(r)) = 1
                     /\ IssuesOf(r)[1].quality_issue =
                            CASE r.closing_stock < 0 -> "NEGATIVE_STOCK"
                              [] r.closing_stock >= 0 /\ r.opening_stock < 0 -> "NEGATIVE_OPENING"
                              [] r.closing_stock >= 0 /\ r.opening_stock >= 0 /\ r.received < 0
                                    -> "NEGATIVE_RECEIVED"
                              [] ~(r.closing_stock < 0 \/ r.opening_stock < 0 \/ r.received < 0)
                                    /\ r.issued < 0 -> "NEGATIVE_ISSUED"
                              [] ~negative /\ Discrepancy(r) > 1 -> "CALCULATION_MISMATCH"
                              [] ~negative /\ Discrepancy(r) <= 1 -> "OVER_ISSUED"

C20_Witness ==
    /\ QualityCalled
    /\ Len(stock_raw) = 4
    /\ Len(QualityIssues) = 3
    /\ \E j \in DOMAIN QualityIssues :
          QualityIssues[j].quality_issue = "OVER_ISSUED" /\ QualityIssues[j].discrepancy = 1
    /\ \E j \in DOMAIN QualityIssues :
          QualityIssues[j].quality_issue = "CALCULATION_MISMATCH"
    /\ \E j \in DOMAIN QualityIssues :
          /\ QualityIssues[j].quality_issue = "NEGATIVE_STOCK"
          /\ QualityIssues[j].opening_stock < 0
          /\ QualityIssues[j].issued < 0

----------------------------------------------------------------------------
(* Properties of the seasonal forecaster *)

SeasonalForecasted == seasonal # <<>> /\ seasonal[1].returned = "forecast_df"

\* the records of RAW_STOCK the latest call was about
History ==
    SelectSeq(RAW_STOCK, LAMBDA r : r.location = seasonal[1].location
                                    /\ r.item = seasonal[1].item)

\* those of them that fall on the same day of the week as date
SameWeekday(date) == SelectSeq(History, LAMBDA r : (r.last_updated_date - date) % 7 = 0)

Quantities(rows) == [i \in DOMAIN rows |-> rows[i].issued_qty]

\* the factor the forecaster holds for the weekday of date: <<>> if it holds none
FactorFor(date) == seasonal[1].seasonal_factors[1][DAYOFWEEK(date)]

\* C21: a weekday has a seasonal factor exactly when it has records; the factor is
\* mean(issued on the weekday) / mean(all issued), and it is above 1 exactly when
\* the weekday's mean is above the overall mean
C21_FactorIsWeekdayMeanOverMean ==
    SeasonalForecasted =>
        \A date \in 0..6 :
            LET rows == SameWeekday(date)
                S == Sum(Quantities(History))
                Sd == Sum(Quantities(rows))
            IN  IF rows = <<>> THEN FactorFor(date) = <<>>
                ELSE /\ FactorFor(date) # <<>>
                     /\ S > 0 =>
                           /\ IsFinite(FactorFor(date)[1])
                           /\ FactorFor(date)[1].val.num * (S * Len(rows))
                                  = FactorFor(date)[1].val.den * (Sd * Len(History))
                     /\ (/\ IsFinite(FactorFor(date)[1])
                         /\ FactorFor(date)[1].val.num > FactorFor(date)[1].val.den)
                            <=> Sd * Len(History) > S * Len(rows)

C21_Witness ==
    /\ SeasonalForecasted
    /\ Len(History) = 14
    /\ \E date \in 0..6 : /\ FactorFor(date) # <<>>
                          /\ FactorFor(date)[1] = Num(Rat(7, 4))
                          /\ Len(SameWeekday(date)) = 2
    /\ \E date \in 0..6 : /\ FactorFor(date) # <<>>
                          /\ IsFinite(FactorFor(date)[1])
                          /\ FactorFor(date)[1].val.num < FactorFor(date)[1].val.den

\* C22 as claimed: when the mean of the history is 0, every seasonal factor is 1.0
\* and every forecast row holds finite numbers
C22_ZeroMeanFactorsAreOne ==
    (SeasonalForecasted /\ Sum(Quantities(History)) = 0) =>
        /\ \A date \in 0..6 :
              FactorFor(date) # <<>> => FactorFor(date)[1] = Num(RInt(1))
        /\ \A i \in DOMAIN seasonal[1].forecast_df :
              /\ seasonal[1].forecast_df[i].seasonal_factor = Num(RInt(1))
              /\ IsFinite(seasonal[1].forecast_df[i].forecasted_usage)
              /\ IsFinite(seasonal[1].forecast_df[i].base_forecast)

\* C23 as claimed: the factor of a forecast row is the factor of the records that fall
\* on the same day of the week as its forecast_date, 1.0 when there is none, and its
\* forecasted_usage is base_forecast times that factor
C23_FactorOfSameWeekday ==
    SeasonalForecasted =>
        \A i \in DOMAIN seasonal[1].forecast_df :
            LET row == seasonal[1].forecast_df[i]
                rows == SameWeekday(row.forecast_date)
                factor == IF rows = <<>> THEN Num(RInt(1))
                          ELSE FDiv(Num(np_mean(Quantities(rows))), seasonal[1].overall_avg[1])
            IN  /\ row.seasonal_factor = round_2(factor)
                /\ row.forecasted_usage = round_2(FMul(seasonal[1].base_forecast[1], factor))

\* the history has every weekday, each the same number of times
WholeWeeks == \A date \in 0..6 : Len(SameWeekday(date)) * 7 = Len(History)

RECURSIVE SumOfFactors(_)
SumOfFactors(d) ==
    IF d < 0 THEN RInt(0)
    ELSE RAdd(SumOfFactors(d - 1), seasonal[1].seasonal_factors[1][d][1].val)

\* C24: over a history of whole weeks with a non-zero mean the seven seasonal factors
\* have mean 1.0
C24_FactorsAverageOne ==
    (SeasonalForecasted /\ History # <<>> /\ WholeWeeks /\ Sum(Quantities(History)) # 0) =>
        /\ \A d \in 0..6 : /\ seasonal[1].seasonal_factors[1][d] # <<>>
                           /\ IsFinite(seasonal[1].seasonal_factors[1][d][1])
        /\ SumOfFactors(6) = RInt(7)

C24_Witness ==
    /\ SeasonalForecasted
    /\ WholeWeeks
    /\ Len(History) = 14
    /\ Sum(Quantities(History)) # 0
    /\ \E d \in 0..6 : seasonal[1].seasonal_factors[1][d][1] = Num(Rat(5, 3))
    /\ \E d \in 0..6 : seasonal[1].seasonal_factors[1][d][1] = Num(Rat(1, 3))

----------------------------------------------------------------------------
(* Properties of the alert sender and the email notifier *)

Sent == sent # <<>>

SentLog == sent[1].log

\* the calls send_alerts made to the notifiers of the external channels
IsInvocation(e) == e.op \in {"send_alert_email", "send_alert_message"}

HighPriority(rows) ==
    SelectSeq(rows, LAMBDA a : a.STOCK_STATUS \in {"OUT_OF_STOCK", "CRITICAL"})

\* C25 as claimed: email and Slack are handed only alerts whose status is OUT_OF_STOCK
\* or CRITICAL and are not invoked when there is none or the channel is not
\* configured, while the console gets every alert
C25_ExternalChannelsGetCriticalOnly ==
    (Sent /\ sent[1].returned = "None") =>
        /\ \A i \in DOMAIN SentLog :
              IsInvocation(SentLog[i]) => HighPriority(SentLog[i].alerts) = SentLog[i].alerts
        /\ (In("console", alert_channels) /\ alerts.rows # <<>>) =>
              \E i \in DOMAIN SentLog :
                  SentLog[i] = Event("console", "_send_console_alerts", alerts.rows)
        /\ \A ch \in {"email", "slack"} :
              (~In(ch, alert_channels) \/ HighPriority(alerts.rows) = <<>>) =>
                  \A i \in DOMAIN SentLog : SentLog[i].channel # ch

ChannelRank(ch) == IF ch = "console" THEN 1 ELSE IF ch = "email" THEN 2 ELSE 3

Failed(ch) == \E i \in DOMAIN SentLog : SentLog[i].channel = ch /\ SentLog[i].op = "failed"

Invoked(ch) == \E i \in DOMAIN SentLog : SentLog[i].channel = ch /\ IsInvocation(SentLog[i])

\* C26: send_alerts works through console, email, Slack in that order whatever the
\* order of alert_channels; an exception of the email notifier does not leave
\* send_alerts and Slack, if configured, is then called with the same alerts; an
\* exception of the Slack notifier does not leave send_alerts either
C26_ExternalFailuresIsolated ==
    Sent =>
        /\ \A i, j \in DOMAIN SentLog :
              i < j => ChannelRank(SentLog[i].channel) <= ChannelRank(SentLog[j].channel)
        /\ sent[1].returned = "None" =>
              \A ch \in valid_channels :
                  (\E i \in DOMAIN SentLog : SentLog[i].channel = ch)
                      <=> /\ In(ch, alert_channels)
                          /\ alerts.rows # <<>>
                          /\ ch # "console" => critical_mask(alerts.rows) # <<>>
        /\ Failed("email") =>
              /\ sent[1].returned = "None"
              /\ In("slack", alert_channels) =>
                    \E i, j \in DOMAIN SentLog :
                        /\ i < j
                        /\ SentLog[i].channel = "email" /\ SentLog[i].op = "failed"
                        /\ SentLog[j] = Event("slack", "send_alert_message", SentLog[i].alerts)
        /\ Failed("slack") => sent[1].returned = "None"
        /\ sent[1].returned = "raised" => ~Invoked("email") /\ ~Invoked("slack")

C26_Witness ==
    /\ Sent
    /\ alert_channels = <<"slack", "email", "console">>
    /\ sent[1].returned = "None"
    /\ Failed("email")
    /\ \E i \in DOMAIN SentLog : SentLog[i].channel = "email" /\ SentLog[i].op = "send_message"
    /\ \E i \in DOMAIN SentLog : SentLog[i].op = "_send_detailed_message"

\* the send_alert_email calls made so far, direct or through send_alerts
EmailCalls ==
    (IF mail # <<>> THEN {mail[1]} ELSE {})
        \cup (IF Sent /\ sent[1].email # <<>> THEN {sent[1].email[1]} ELSE {})

Count(log, op) == Len(SelectSeq(log, LAMBDA e : e.op = op))

\* C27 as claimed: when send_alert_email returns, the connection connect() opened has
\* been closed by disconnect(), and it returns True only after the message was handed
\* to the SMTP server
C27_NoConnectionLeftOpen ==
    \A call \in EmailCalls :
        call.returned \in {"True", "False"} =>
            /\ call.smtp_connection # "open"
            /\ Count(call.log, "connect") = Count(call.log, "disconnect")
            /\ call.returned = "True" => Count(call.log, "send_message") = 1

----------------------------------------------------------------------------
(* Properties of the stock data generator *)

\* the records generated so far for the k-th (location, item), in day order
RecordsOf(k) ==
    SelectSeq(gen_data, LAMBDA r : r.location = GenKeys[k].location
                                   /\ r.item = GenKeys[k].item)

\* C28: in the generated history of every (location, item), each day issues at most
\* the stock carried over from the day before, records current_stock = previous stock
\* - issued + received, never a negative one, and starts the next day from the
\* current_stock it recorded
C28_StockCarriedOver ==
    /\ \A k \in DOMAIN GenKeys :
          LET recs == RecordsOf(k)
          IN  /\ \A i \in DOMAIN recs :
                    /\ recs[i].current_stock >= 0
                    /\ recs[i].last_updated_date = i - 1
                    /\ i > 1 =>
                          /\ recs[i].issued_qty <= recs[i - 1].current_stock
                          /\ recs[i].current_stock
                                = recs[i - 1].current_stock - recs[i].issued_qty
                                      + recs[i].received_qty
              /\ recs # <<>> => stock_levels[k] = recs[Len(recs)].current_stock
    /\ gen_data # <<>> =>
          LET body == position.locals[1]
              rec == gen_data[Len(gen_data)]
              recs == RecordsOf(body.k)
          IN  /\ rec = recs[Len(recs)]
              /\ Len(recs) > 1 => body.current_stock = recs[Len(recs) - 1].current_stock
              /\ rec.issued_qty <= body.current_stock
              /\ rec.current_stock = body.current_stock - rec.issued_qty + rec.received_qty

C28_Witness ==
    /\ position # <<>>
    /\ position.day = 2
    /\ Len(gen_data) = 2 * Len(GenKeys)
    /\ \E i \in DOMAIN gen_data : gen_data[i].received_qty = 150 /\ gen_data[i].issued_qty > 0
    /\ \E i \in DOMAIN gen_data :
          /\ gen_data[i].last_updated_date = 1
          /\ gen_data[i].received_qty = 0
          /\ gen_data[i].issued_qty >= 50

----------------------------------------------------------------------------
(* Properties of the forecaster: the trend and the two averages *)

----------------------------------------------------------------------------
(* Properties of the detector: whole-number records *)

\* quantities are carried in hundredths
WholeNumbers(r) ==
    /\ r.opening_stock % 100 = 0
    /\ r.received % 100 = 0
    /\ r.issued % 100 = 0
    /\ r.closing_stock % 100 = 0

EarlierLabels == {"NEGATIVE_STOCK", "NEGATIVE_OPENING", "NEGATIVE_RECEIVED", "NEGATIVE_ISSUED",
                  "CALCULATION_MISMATCH"}

\* C30: a record whose four quantities are whole numbers is never labelled
\* OVER_ISSUED; if its issued exceeds opening_stock + received it is reported with
\* one of the five labels that come first
C30_WholeNumbersNeverOverIssued ==
    QualityCalled =>
        \A i \in DOMAIN stock_raw :
            LET r == stock_raw[i]
            IN  WholeNumbers(r) =>
                    /\ \A j \in DOMAIN IssuesOf(r) :
                          IssuesOf(r)[j].quality_issue # "OVER_ISSUED"
                    /\ r.issued > r.opening_stock + r.received =>
                          /\ IssuesOf(r) # <<>>
                          /\ \A j \in DOMAIN IssuesOf(r) :
                                IssuesOf(r)[j].quality_issue \in EarlierLabels

C30_Witness ==
    /\ QualityCalled
    /\ \E i \in DOMAIN stock_raw :
          /\ WholeNumbers(stock_raw[i])
          /\ stock_raw[i].opening_stock = 100
          /\ stock_raw[i].received = 0
          /\ stock_raw[i].issued = 200
          /\ stock_raw[i].closing_stock = 0
          /\ IssuesOf(stock_raw[i]) # <<>>
          /\ IssuesOf(stock_raw[i])[1].quality_issue = "CALCULATION_MISMATCH"

====
